---- MODULE Spec2Model ----
(***************************************************************************)
(* The adaptive hash index (AHI) of storage/innobase/btr/btr0sea.cc:       *)
(* the partitioned hash table with its chain-node slab, the per-page       *)
(* build / drop protocol, the hash-guess path and enable / disable.        *)
(*                                                                         *)
(* Pointers are integers: the frame of buffer block b starts at            *)
(* b * SrvPageSize, a record or a chain node is frame + offset, and 0 is   *)
(* nullptr.  Blocks 1..NLeaf hold B-tree leaf pages; the blocks above      *)
(* them are the ones buf_block_alloc() hands out for the node slab.        *)
(***************************************************************************)
EXTENDS Integers, Sequences, FiniteSets, TLC

\* ---------------------------------------------------------------- bounds
\* srv_page_size, scaled down so that a slab page holds three chain nodes.
SrvPageSize == 84
\* number of cells of a partition's hash table (hash_table_t::n_cells)
NCells == 2
\* buffer blocks that hold leaf pages
NLeaf == 2
\* buffer blocks available to buf_block_alloc() for the slab
NSlab == 5
\* number of partitions (btr_search.n_parts)
NParts == 2
\* threads
NThreads == 2
\* array_elements(folds) in btr_search_drop_page_hash_index, scaled from 128
DropBatch == 2
\* array_elements(fr) in btr_search_build_page_hash_index, scaled from 64
BuildBatch == 2
\* user records a leaf page can hold
MaxRecs == 4
\* operations started in one behaviour of all threads
MaxOps == 2
\* operations started in one behaviour of one thread
MaxOpsSeq == 3
\* largest fingerprint handed to the partition operations on their own
MaxFold == 3

\* ------------------------------------------------------ program constants
\* sizeof(ahi_node) on a 64-bit build without UNIV_AHI_DEBUG
SizeofNode == 24

Null == 0

LeafBlocks == 1..NLeaf
SlabBlocks == (NLeaf + 1)..(NLeaf + NSlab)

\* buf_block_t::page.frame
Frame(b) == b * SrvPageSize

\* page_align(ptr), as the number of the block whose frame holds ptr
\* (buf_pool_t::block_from_ahi resolves a pointer the same way)
BlockFromAhi(ptr) == ptr \div SrvPageSize

\* (uintptr_t(rec) ^ uintptr_t(page)) < page_size, for a page-aligned page
OnPage(rec, page) == BlockFromAhi(rec) = BlockFromAhi(page)

\* offsets at which partition::insert can place a node in a slab page
SlotOffsets ==
  {0} \cup {o \in 1..SrvPageSize : o % SizeofNode = 0 /\ o < SrvPageSize - SizeofNode}

SlotAddrs == {Frame(b) + o : b \in SlabBlocks, o \in SlotOffsets}

\* contents of a slot that holds no node (MEM_NOACCESS)
NoNode == [fold |-> -1, rec |-> Null, next |-> Null]

\* hash_table_t::calc_hash
CalcHash(fold) == fold % NCells

\* A partition right after partition::init() (no table, no slab page).
\*   array:       whether table.array is allocated
\*   cells:       table.array[i].node
\*   blocks:      the list of slab pages, first to last
\*   free_offset: buf_page_t::free_offset of each slab-capable block
\*   spare:       the spare slab block, or Null
\*   node:        the memory of the slab slots
EmptyPart ==
  [array |-> FALSE,
   cells |-> [c \in 0..(NCells - 1) |-> Null],
   blocks |-> << >>,
   free_offset |-> [b \in SlabBlocks |-> 0],
   spare |-> Null,
   node |-> [a \in SlotAddrs |-> NoNode]]

\* ------------------------------------------------------------ chain walks
\* The addresses of a chain from pointer a on, following next; fuel bounds
\* the walk of a chain that a bug made cyclic.
RECURSIVE ChainFrom(_, _, _)
ChainFrom(node, a, fuel) ==
  IF a = Null \/ fuel = 0 \/ a \notin SlotAddrs THEN << >>
  ELSE <<a>> \o ChainFrom(node, node[a].next, fuel - 1)

Fuel == Cardinality(SlotAddrs) + 1

\* the chain of cell c of partition p
Chain(p, c) == ChainFrom(p.node, p.cells[c], Fuel)

\* every node linked in some chain of p
Linked(p) == UNION {{Chain(p, c)[k] : k \in 1..Len(Chain(p, c))} : c \in 0..(NCells - 1)}

\* first index k of sequence s with P(s[k]), or 0
FirstIdx(s, P(_)) ==
  IF \E k \in 1..Len(s) : P(s[k])
  THEN CHOOSE k \in 1..Len(s) : P(s[k]) /\ \A j \in 1..(k - 1) : ~P(s[j])
  ELSE 0

\* *prev = to, where prev is the pointer that holds the k-th node of the
\* chain of cell c: the cell head for k = 1, else the (k-1)-th node's next
SetLink(p, c, k, to) ==
  IF k = 1 THEN [p EXCEPT !.cells[c] = to]
  ELSE [p EXCEPT !.node[Chain(p, c)[k - 1]].next = to]

\* ------------------------------------------------- partition::insert
\* last->free_offset < srv_page_size - sizeof *node
HasRoom(free_offset) == free_offset < SrvPageSize - SizeofNode

\* the last slab page of the list, or Null (UT_LIST_GET_LAST(blocks))
LastBlock(p) == IF Len(p.blocks) = 0 THEN Null ELSE p.blocks[Len(p.blocks)]

\* a variant of LinkNew that appends every new node to the chain of cell 0
LinkNewCellZero(p, c, n, fold, rec) ==
  LET ch == Chain(p, 0)
      q == [p EXCEPT !.node[n] = [fold |-> fold, rec |-> rec, next |-> Null]]
  IN IF p.cells[0] = Null THEN [q EXCEPT !.cells[0] = n]
     ELSE [q EXCEPT !.node[ch[Len(ch)]].next = n]

\* fill in the new node n and append it to the tail of the chain of cell c
LinkNew(p, c, n, fold, rec) ==
  LET ch == Chain(p, c)
      q == [p EXCEPT !.node[n] = [fold |-> fold, rec |-> rec, next |-> Null]]
  IN IF p.cells[c] = Null THEN [q EXCEPT !.cells[c] = n]
     ELSE [q EXCEPT !.node[ch[Len(ch)]].next = n]

\* a variant of InsertNewNode that, without room and without a spare, empties
\* the chain of the cell instead of giving up
InsertNewNodeDropChain(p, fold, rec) ==
  LET c == CalcHash(fold)
      last == LastBlock(p)
  IN IF last # Null /\ HasRoom(p.free_offset[last])
     THEN LinkNew([p EXCEPT !.free_offset[last] = @ + SizeofNode],
                  c, Frame(last) + p.free_offset[last], fold, rec)
     ELSE IF p.spare = Null THEN [p EXCEPT !.cells[c] = Null]
     ELSE LinkNew([p EXCEPT !.spare = Null,
                            !.blocks = Append(@, p.spare),
                            !.free_offset[p.spare] = SizeofNode],
                  c, Frame(p.spare), fold, rec)

\* "We have to allocate a new chain node": from the last slab page or from
\* the spare; without room and without a spare the insert is abandoned
InsertNewNode(p, fold, rec) ==
  LET c == CalcHash(fold)
      last == LastBlock(p)
  IN IF last # Null /\ HasRoom(p.free_offset[last])
     THEN LinkNew([p EXCEPT !.free_offset[last] = @ + SizeofNode],
                  c, Frame(last) + p.free_offset[last], fold, rec)
     ELSE IF p.spare = Null THEN p
     ELSE LinkNew([p EXCEPT !.spare = Null,
                            !.blocks = Append(@, p.spare),
                            !.free_offset[p.spare] = SizeofNode],
                  c, Frame(p.spare), fold, rec)

\* a variant of PartInsert that allocates a node without looking for one
\* with this fold
PartInsertNoSearch(p, fold, rec) == InsertNewNode(p, fold, rec)

\* btr_sea::partition::insert(fold, rec): replace the rec of the node with
\* this fold, or allocate a node
PartInsert(p, fold, rec) ==
  LET ch == Chain(p, CalcHash(fold))
      k == FirstIdx(ch, LAMBDA a : p.node[a].fold = fold)
  IN IF k # 0 THEN [p EXCEPT !.node[ch[k]].rec = rec]
     ELSE InsertNewNode(p, fold, rec)

\* ------------------------------------- partition::cleanup_after_erase
\* the top node of the slab: last->frame + last->free_offset - sizeof *top
TopNode(p) == Frame(LastBlock(p)) + p.free_offset[LastBlock(p)] - SizeofNode

\* if (erase != top): *erase= *top, and the pointer that referenced top
\* now references erase
\* a variant of MoveTop that copies the top node but leaves the link of its
\* predecessor pointing at the old slot
MoveTopNoRelink(p, erase, top) == [p EXCEPT !.node[erase] = p.node[top]]

MoveTop(p, erase, top) ==
  LET q == [p EXCEPT !.node[erase] = p.node[top]]
      c == CalcHash(p.node[top].fold)
      k == FirstIdx(Chain(q, c), LAMBDA a : a = top)
  IN IF k = 0 THEN q ELSE SetLink(q, c, k, erase)

\* a variant of CleanupAfterErase that always keeps the emptied page as the
\* spare and hands the former spare, if any, to buf_pool.free_block()
CleanupAfterEraseSwapSpare(p, erase) ==
  LET last == LastBlock(p)
      top == TopNode(p)
      p1 == IF erase # top THEN MoveTop(p, erase, top) ELSE p
      off == p.free_offset[last] - SizeofNode
      p2 == [p1 EXCEPT !.free_offset[last] = off, !.node[top] = NoNode]
  IN IF off # 0 THEN [p |-> p2, freed |-> << >>]
     ELSE [p |-> [p2 EXCEPT !.blocks = SubSeq(@, 1, Len(@) - 1), !.spare = last],
           freed |-> IF p.spare # Null THEN <<p.spare>> ELSE << >>]

\* btr_sea::partition::cleanup_after_erase(erase), erase already unlinked.
\* Returns the partition and the blocks to hand to buf_pool.free_block().
CleanupAfterErase(p, erase) ==
  LET last == LastBlock(p)
      top == TopNode(p)
      p1 == IF erase # top THEN MoveTop(p, erase, top) ELSE p
      off == p.free_offset[last] - SizeofNode
      p2 == [p1 EXCEPT !.free_offset[last] = off, !.node[top] = NoNode]
  IN IF off # 0 THEN [p |-> p2, freed |-> << >>]
     ELSE IF p.spare # Null
     THEN [p |-> [p2 EXCEPT !.blocks = SubSeq(@, 1, Len(@) - 1)],
           freed |-> <<last>>]
     ELSE [p |-> [p2 EXCEPT !.blocks = SubSeq(@, 1, Len(@) - 1), !.spare = last],
           freed |-> << >>]

\* a variant of UnlinkAndCleanup that leaves the node in its chain
UnlinkAndCleanupLinked(p, c, k) == CleanupAfterErase(p, Chain(p, c)[k])

\* unlink the k-th node of the chain of cell c and clean up after it
UnlinkAndCleanup(p, c, k) ==
  LET n == Chain(p, c)[k]
      q == [SetLink(p, c, k, p.node[n].next) EXCEPT !.node[n].next = Null]
  IN CleanupAfterErase(q, n)

\* a variant of HaRemoveAllNodesToPage that erases the first node it finds
\* and does not scan again
HaRemoveFirstNodeToPage(r, fold, page) ==
  LET c == CalcHash(fold)
      k == FirstIdx(Chain(r.p, c), LAMBDA a : OnPage(r.p.node[a].rec, page))
  IN IF k = 0 THEN r
     ELSE LET cl == UnlinkAndCleanup(r.p, c, k)
          IN [p |-> cl.p, freed |-> r.freed \o cl.freed]

\* ------------------------------------------ ha_remove_all_nodes_to_page
\* r = [p, freed]; after each erase the scan restarts from the cell head
RECURSIVE HaRemoveAllNodesToPage(_, _, _)
HaRemoveAllNodesToPage(r, fold, page) ==
  LET c == CalcHash(fold)
      k == FirstIdx(Chain(r.p, c), LAMBDA a : OnPage(r.p.node[a].rec, page))
  IN IF k = 0 THEN r
     ELSE LET cl == UnlinkAndCleanup(r.p, c, k)
          IN HaRemoveAllNodesToPage([p |-> cl.p, freed |-> r.freed \o cl.freed],
                                    fold, page)

\* ---------------------------------------------------- partition::erase
\* the index in the chain of cell(fold) of the node to erase, or 0
EraseIdx(p, fold, rec) ==
  FirstIdx(Chain(p, CalcHash(fold)), LAMBDA a : p.node[a].rec = rec)

\* btr_sea::partition::erase(fold, rec), without its latch.wr_unlock()
\* a variant of PartErase that looks for the node by its fold
PartEraseByFold(p, fold, rec) ==
  LET k == FirstIdx(Chain(p, CalcHash(fold)), LAMBDA a : p.node[a].fold = fold)
  IN IF k = 0 THEN [p |-> p, freed |-> << >>, found |-> FALSE]
     ELSE LET cl == UnlinkAndCleanup(p, CalcHash(fold), k)
          IN [p |-> cl.p, freed |-> cl.freed, found |-> TRUE]

PartErase(p, fold, rec) ==
  LET k == EraseIdx(p, fold, rec)
  IN IF k = 0 THEN [p |-> p, freed |-> << >>, found |-> FALSE]
     ELSE LET cl == UnlinkAndCleanup(p, CalcHash(fold), k)
          IN [p |-> cl.p, freed |-> cl.freed, found |-> TRUE]

\* a variant of HaSearchAndUpdateIfFound that redirects every node of the
\* cell, whatever its rec
HaSearchAndUpdateCell(p, fold, data, new_data) ==
  LET ch == Chain(p, CalcHash(fold))
  IN [p EXCEPT !.node = [a \in SlotAddrs |->
                           IF \E k \in 1..Len(ch) : ch[k] = a
                           THEN [p.node[a] EXCEPT !.rec = new_data]
                           ELSE p.node[a]]]

\* ------------------------------------- ha_search_and_update_if_found
\* (the caller has checked btr_search.enabled)
HaSearchAndUpdateIfFound(p, fold, data, new_data) ==
  LET ch == Chain(p, CalcHash(fold))
      k == FirstIdx(ch, LAMBDA a : p.node[a].rec = data)
  IN IF k = 0 THEN p ELSE [p EXCEPT !.node[ch[k]].rec = new_data]

\* --------------------------------------------------- partition::clear
\* the spare and every slab page go back to the buffer pool
PartClear(p) ==
  [p |-> [EmptyPart EXCEPT !.array = FALSE],
   freed |-> (IF p.spare = Null THEN << >> ELSE <<p.spare>>) \o p.blocks]

\* =====================================================================
\* Hash parameters.  The 32-bit word left_bytes_fields is kept as its two
\* 16-bit halves <<hi, lo>>: lo = number of complete fields, hi = LEFT_SIDE
\* (bit 15 of the upper half) | number of bytes of the next field.
\* =====================================================================
TwoTo15 == 32768

\* buf_block_t::LEFT_SIDE (1U << 31)
LEFT_SIDE == <<TwoTo15, 0>>

Lbf(left, n_bytes, n_fields) == <<(IF left THEN TwoTo15 ELSE 0) + n_bytes, n_fields>>

\* left_bytes_fields & buf_block_t::LEFT_SIDE
IsLeftSide(lbf) == lbf[1] >= TwoTo15

\* left_bytes_fields & ~buf_block_t::LEFT_SIDE
StripLeft(lbf) == <<lbf[1] % TwoTo15, lbf[2]>>

\* n_bytes_fields >> 16, for a word without the LEFT_SIDE bit
NBytesOf(nbf) == nbf[1]

\* uint16_t(n_bytes_fields)
NFieldsOf(nbf) == nbf[2]

NoParams == <<0, 0>>

\* btr_search_get_n_fields(n_bytes_fields):
\*   uint16_t(n_bytes_fields) + (n_bytes_fields >= 1U << 16)
BtrSearchGetNFields(nbf) == nbf[2] + (IF nbf[1] > 0 THEN 1 ELSE 0)

\* (a ^ b) & ~buf_block_t::LEFT_SIDE is non-zero
DiffersIgnoringSide(a, b) == StripLeft(a) # StripLeft(b)

\* =====================================================================
\* Records, tuples and their fingerprints.  A key has NKeyFields fields of
\* one byte each (fixed_len = 1, NOT NULL), in ROW_FORMAT=COMPACT.
\* =====================================================================
NKeyFields == 2
Bytes == {0, 1, 2}
\* the keys of the index: two one-byte fields, the first of them 0 or 1
Keys == {k \in [1..NKeyFields -> Bytes] : k[1] < 2}

\* dict_index_get_n_unique_in_tree(index)
NUniqueInTree == 2

Min(a, b) == IF a < b THEN a ELSE b

\* my_crc32c(crc, data, len): an injective stand-in for CRC-32C, folding
\* one byte at a time
FoldMod == 8
RECURSIVE Crc32c(_, _)
Crc32c(crc, data) ==
  IF Len(data) = 0 THEN crc
  ELSE Crc32c((crc * 3 + data[1] + 1) % FoldMod, SubSeq(data, 2, Len(data)))

\* uint32_t(ut_fold_ull(index.id))
FoldId(id) == id

\* the length in bytes of the prefix rec_fold<true> hashes: the first n_f
\* fields, the last of them cut to n_bytes when n_bytes > 0
RecFoldLen(n_bytes_fields) ==
  LET n_f == BtrSearchGetNFields(n_bytes_fields)
      n == n_f
      len == 1
      n_bytes == NBytesOf(n_bytes_fields)
  IN IF n_bytes # 0 THEN n + Min(n_bytes, len) - len ELSE n

\* rec_fold<true>(rec, index, n_bytes_fields) on the bytes of the record
RecFold(key, id, n_bytes_fields) ==
  Crc32c(FoldId(id), SubSeq(key, 1, Min(RecFoldLen(n_bytes_fields), Len(key))))

\* dtuple_fold(tuple, cursor): field by field, then n_bytes of the next
DtupleFold(tuple, id, n_bytes_fields) ==
  LET n_fields == NFieldsOf(n_bytes_fields)
      n_bytes == NBytesOf(n_bytes_fields)
      whole == Crc32c(FoldId(id), SubSeq(tuple, 1, n_fields))
  IN IF n_bytes # 0
     THEN Crc32c(whole, SubSeq(<<tuple[n_fields + 1]>>, 1, Min(n_bytes, 1)))
     ELSE whole

\* cmp_dtuple_rec: -1, 0 or 1 as the tuple sorts before, with or after key
RECURSIVE CmpFrom(_, _, _)
CmpFrom(a, b, i) ==
  IF i > Len(a) \/ i > Len(b) THEN 0
  ELSE IF a[i] < b[i] THEN -1
  ELSE IF a[i] > b[i] THEN 1
  ELSE CmpFrom(a, b, i + 1)

Cmp(a, b) == CmpFrom(a, b, 1)

\* =====================================================================
\* State
\* =====================================================================
VARIABLES
  enabled,     \* btr_search.enabled
  parts,       \* btr_search.parts[]: [0..NParts-1 -> partition]
  latch,       \* partition::latch: [w: the writer or 0, r: the readers]
  bmutex,      \* partition::blocks_mutex: the holder or 0
  buf_free,    \* the blocks buf_block_alloc() can hand out
  block,       \* the leaf blocks' descriptors (buf_block_t)
  page,        \* the leaf pages: the user records in page order
  idx,         \* the index objects (dict_index_t) with their search_info
  cur_index,   \* the index object in the dictionary cache
  dict_frozen, \* the threads that hold dict_sys frozen
  th,          \* the threads: position in the handler they run, locals
  ops,         \* operations that may still start
  hist         \* history: the operation that ran alone and returned last,
               \* and the thread that is running alone

vars == <<enabled, parts, latch, bmutex, buf_free, block, page, idx,
          cur_index, dict_frozen, th, ops, hist>>

Parts == 0..(NParts - 1)
Threads == 1..NThreads
\* dict_index_t objects: 2 is index 1 re-created under the same id
Indexes == {1, 2}
IndexId(i) == 1

\* btr_search.get_part(index id)
GetPart(id) == id % NParts

\* btr_page_get_index_id(block->page.frame)
PageIndexId(b) == 1

\* PAGE_NEW_INFIMUM, PAGE_NEW_SUPREMUM and the first heap offset of a user
\* record, scaled to the model's page
PAGE_NEW_INFIMUM == 1
PAGE_NEW_SUPREMUM == 2
PAGE_HEAP_START == 3

Infimum(b) == Frame(b) + PAGE_NEW_INFIMUM
Supremum(b) == Frame(b) + PAGE_NEW_SUPREMUM
HeapOffsets == PAGE_HEAP_START..(PAGE_HEAP_START + MaxRecs - 1)

\* the pointers to the user records of page b, in page order
RecPtrs(b) == [k \in 1..Len(page[b]) |-> Frame(b) + page[b][k].off]

\* the position in page order of the user record rec points to, or 0
PosOf(b, rec) == FirstIdx(RecPtrs(b), LAMBDA r : r = rec)

\* rec's key
KeyOf(b, rec) == page[b][PosOf(b, rec)].key

\* page_rec_next_get<true>(page, rec)
PageRecNext(b, rec) ==
  LET k == IF rec = Infimum(b) THEN 0 ELSE PosOf(b, rec)
  IN IF k >= Len(page[b]) THEN Supremum(b) ELSE RecPtrs(b)[k + 1]

\* the record before rec in page order
PageRecPrev(b, rec) ==
  LET k == IF rec = Supremum(b) THEN Len(page[b]) + 1 ELSE PosOf(b, rec)
  IN IF k <= 1 THEN Infimum(b) ELSE RecPtrs(b)[k - 1]

\* page_rec_is_user_rec(rec)
IsUserRec(b, rec) == PosOf(b, rec) # 0

\* ---------------------------------------------------------------- latches
RdFree(p) == latch[p].w = 0
WrFree(p) == latch[p].w = 0 /\ latch[p].r = {}

\* the page latch of block b can be taken in mode m by thread t
PageLatchFree(b, m) ==
  IF m = "s" THEN block[b].x = 0 ELSE block[b].x = 0 /\ block[b].s = {}

\* a variant of LatchPage that grants every request in shared mode
LatchPageShared(blk, b, t, m) == [blk EXCEPT ![b].s = @ \cup {t}]

LatchPage(blk, b, t, m) ==
  IF m = "s" THEN [blk EXCEPT ![b].s = @ \cup {t}] ELSE [blk EXCEPT ![b].x = t]

UnlatchPage(blk, b, t) ==
  [blk EXCEPT ![b].s = @ \ {t}, ![b].x = IF @ = t THEN 0 ELSE @]

\* buf_pool.free_block() of the slab blocks in sequence fr
FreeBlocks(free, fr) == free \cup {fr[k] : k \in 1..Len(fr)}

\* ---------------------------------------------------------------- threads
Idle ==
  [pc |-> "idle", op |-> "none", b |-> 0, b2 |-> 0, index |-> Null,
   lbf |-> NoParams, gc |-> FALSE, gc0 |-> FALSE, lmode |-> "none",
   dblock |-> 0, is_freed |-> FALSE, dindex |-> Null, dnbf |-> NoParams, rec |-> Null,
   dcont |-> "none", picont |-> "none", bcont |-> "none", alloc |-> Null,
   cnbf |-> NoParams,
   tuple |-> << >>, ge |-> FALSE, fold |-> 0, flag |-> "none", crec |-> Null,
   ret |-> FALSE, i |-> 0, resize |-> FALSE, changed |-> FALSE,
   n_hash_potential |-> 0, n_hash_helps |-> 0]

\* the thread's handler has returned; Finish ends the operation
Done(t) == th[t].pc = "done"

Set(t, r) == th' = [th EXCEPT ![t] = r]

\* the leaf page's first user record, or the supremum
\* (page_rec_next_get<true>(page, page + PAGE_NEW_INFIMUM))
FirstRec(b) == PageRecNext(b, Infimum(b))

\* =====================================================================
\* btr_search_drop_page_hash_index(block, garbage_collect)
\* =====================================================================

\* The loop that collects the next batch of fingerprints: consecutive equal
\* fingerprints are stored once, and the loop leaves with DropBatch of them.
RECURSIVE DropGather(_, _, _, _)
DropGather(b, rec, folds, nbf) ==
  IF rec = Supremum(b) THEN [folds |-> folds, rec |-> rec]
  ELSE LET f == RecFold(KeyOf(b, rec), PageIndexId(b), nbf)
           nxt == PageRecNext(b, rec)
       IN IF Len(folds) = 0 THEN DropGather(b, nxt, <<f>>, nbf)
          ELSE IF folds[Len(folds)] = f THEN DropGather(b, nxt, folds, nbf)
          ELSE IF Len(folds) + 1 = DropBatch
          THEN [folds |-> Append(folds, f), rec |-> nxt]
          ELSE DropGather(b, nxt, Append(folds, f), nbf)

\* while (n_folds) ha_remove_all_nodes_to_page(part, folds[--n_folds], page)
RECURSIVE RemoveFolds(_, _, _)
RemoveFolds(r, folds, pg) ==
  IF Len(folds) = 0 THEN r
  ELSE RemoveFolds(HaRemoveAllNodesToPage(r, folds[Len(folds)], pg),
                   SubSeq(folds, 1, Len(folds) - 1), pg)

\* the drop returns to its caller
DropReturn(s) ==
  [s EXCEPT !.pc = s.dcont, !.dcont = "none", !.dblock = 0, !.is_freed = FALSE,
            !.dindex = Null, !.dnbf = NoParams, !.rec = Null, !.gc = FALSE]

\* retry: up to the end of the section under the shared partition latch
DropEntry(t) ==
  LET s == th[t]
      b == s.dblock
      index == block[b].index
      p == GetPart(PageIndexId(b))
  IN /\ s.pc = "d_entry"
     /\ IF index = Null THEN Set(t, DropReturn(s))
        ELSE /\ RdFree(p)
             /\ IF ~enabled THEN Set(t, DropReturn(s))
                ELSE IF idx[index].freed
                THEN Set(t, [s EXCEPT !.pc = "d_wrf", !.is_freed = TRUE,
                                      !.dindex = index])
                ELSE IF s.gc THEN Set(t, DropReturn(s))
                ELSE Set(t, [s EXCEPT !.pc = "d_commit", !.is_freed = FALSE,
                                      !.dindex = index,
                                      !.dnbf = StripLeft(block[b].curr_lbf),
                                      !.rec = FirstRec(b)])
     /\ UNCHANGED <<enabled, parts, latch, bmutex, buf_free, block, page, idx,
                    cur_index, dict_frozen, ops, hist>>

\* the index is freed: take the partition latch exclusively and look again
DropWrFreed(t) ==
  LET s == th[t]
      b == s.dblock
      p == GetPart(PageIndexId(b))
  IN /\ s.pc = "d_wrf"
     /\ WrFree(p)
     /\ IF s.dindex # block[b].index
        THEN /\ Set(t, [s EXCEPT !.pc = "d_entry", !.is_freed = FALSE,
                                 !.dindex = Null])
             /\ UNCHANGED latch
        ELSE /\ Set(t, [s EXCEPT !.pc = "d_commit",
                                 !.dnbf = StripLeft(block[b].curr_lbf),
                                 !.rec = FirstRec(b)])
             /\ latch' = [latch EXCEPT ![p].w = t]
     /\ UNCHANGED <<enabled, parts, bmutex, buf_free, block, page, idx,
                    cur_index, dict_frozen, ops, hist>>

\* a variant of LazyFree that leaves the freed index object alone
LazyFreeNone(ix, i) == ix

\* btr_search_lazy_free(index): the freed index object is destroyed
LazyFree(ix, i) == [ix EXCEPT ![i].lazy_freed = @ + 1]

\* a variant of DropRelease that leaves the block pointing to its index
DropReleaseKeep(blk, b) == blk

\* block->index= nullptr
DropRelease(blk, b) == [blk EXCEPT ![b].index = Null]

\* a variant of DropCommit that does not look at block->index again under
\* the exclusive partition latch
DropCommitNoRecheck(t) ==
  LET s == th[t]
      b == s.dblock
      p == GetPart(PageIndexId(b))
      g == DropGather(b, s.rec, << >>, s.dnbf)
      rm == RemoveFolds([p |-> parts[p], freed |-> << >>], g.folds, Frame(b))
      index == s.dindex
  IN /\ s.pc = "d_commit"
     /\ IF s.is_freed THEN latch[p].w = t ELSE WrFree(p)
     /\ bmutex[p] = 0
     /\ IF DiffersIgnoringSide(block[b].curr_lbf, s.dnbf)
        THEN /\ Set(t, [s EXCEPT !.pc = "d_entry", !.is_freed = FALSE,
                                 !.dindex = Null])
             /\ latch' = [latch EXCEPT ![p].w = 0]
             /\ UNCHANGED <<parts, buf_free, block, idx>>
        ELSE /\ parts' = [parts EXCEPT ![p] = rm.p]
             /\ buf_free' = FreeBlocks(buf_free, rm.freed)
             /\ IF g.rec # Supremum(b)
                THEN /\ Set(t, [s EXCEPT !.rec = g.rec])
                     /\ UNCHANGED <<latch, block, idx>>
                ELSE IF idx[index].ref_count = 0
                THEN /\ Set(t, [s EXCEPT !.pc = "abort"])
                     /\ UNCHANGED <<latch, block, idx>>
                ELSE /\ idx' =
                          LET d == [idx EXCEPT ![index].ref_count = @ - 1]
                          IN IF idx[index].ref_count = 1 /\ idx[index].freed
                             THEN LazyFree(d, index) ELSE d
                     /\ block' = DropRelease(block, b)
                     /\ latch' = [latch EXCEPT ![p].w = 0]
                     /\ Set(t, DropReturn(s))
     /\ UNCHANGED <<enabled, bmutex, page, cur_index, dict_frozen, ops,
                    hist>>

\* One batch: collect the fingerprints, then, under the exclusive partition
\* latch, check block->index and the parameters again, remove the nodes,
\* and after the last batch release the index reference of the block.
DropCommit(t) ==
  LET s == th[t]
      b == s.dblock
      p == GetPart(PageIndexId(b))
      g == DropGather(b, s.rec, << >>, s.dnbf)
      rm == RemoveFolds([p |-> parts[p], freed |-> << >>], g.folds, Frame(b))
      index == s.dindex
  IN /\ s.pc = "d_commit"
     /\ IF s.is_freed THEN latch[p].w = t ELSE WrFree(p)
     /\ bmutex[p] = 0
     /\ IF ~s.is_freed /\ block[b].index = Null
        THEN /\ Set(t, DropReturn(s))
             /\ UNCHANGED <<parts, latch, buf_free, block, idx>>
        ELSE IF ~s.is_freed /\ block[b].index # index
        THEN /\ Set(t, [s EXCEPT !.pc = "abort"])
             /\ UNCHANGED <<parts, latch, buf_free, block, idx>>
        ELSE IF DiffersIgnoringSide(block[b].curr_lbf, s.dnbf)
        THEN /\ Set(t, [s EXCEPT !.pc = "d_entry", !.is_freed = FALSE,
                                 !.dindex = Null])
             /\ latch' = [latch EXCEPT ![p].w = 0]
             /\ UNCHANGED <<parts, buf_free, block, idx>>
        ELSE /\ parts' = [parts EXCEPT ![p] = rm.p]
             /\ buf_free' = FreeBlocks(buf_free, rm.freed)
             /\ IF g.rec # Supremum(b)
                THEN /\ Set(t, [s EXCEPT !.rec = g.rec])
                     /\ UNCHANGED <<latch, block, idx>>
                ELSE IF idx[index].ref_count = 0
                THEN /\ Set(t, [s EXCEPT !.pc = "abort"])
                     /\ UNCHANGED <<latch, block, idx>>
                ELSE /\ idx' =
                          LET d == [idx EXCEPT ![index].ref_count = @ - 1]
                          IN IF idx[index].ref_count = 1 /\ idx[index].freed
                             THEN LazyFree(d, index) ELSE d
                     /\ block' = DropRelease(block, b)
                     /\ latch' = [latch EXCEPT ![p].w = 0]
                     /\ Set(t, DropReturn(s))
     /\ UNCHANGED <<enabled, bmutex, page, cur_index, dict_frozen, ops,
                    hist>>

\* =====================================================================
\* btr_sea::partition::prepare_insert()
\* =====================================================================

\* the unlatched test and buf_block_alloc()
PiCheck(t) ==
  LET s == th[t]
      p == GetPart(IndexId(s.index))
  IN /\ s.pc = "pi_check"
     /\ IF parts[p].spare = Null /\ enabled
        THEN /\ buf_free # {}
             /\ LET a == CHOOSE x \in buf_free : \A y \in buf_free : x <= y
                IN /\ Set(t, [s EXCEPT !.pc = "pi_mutex", !.alloc = a])
                   /\ buf_free' = buf_free \ {a}
        ELSE /\ Set(t, [s EXCEPT !.pc = s.picont, !.picont = "none"])
             /\ UNCHANGED buf_free
     /\ UNCHANGED <<enabled, parts, latch, bmutex, block, page, idx,
                    cur_index, dict_frozen, ops, hist>>

\* a variant of PiMutex that does not look at btr_search.enabled again under
\* blocks_mutex
PiMutexSpareOnly(t) ==
  LET s == th[t]
      p == GetPart(IndexId(s.index))
  IN /\ s.pc = "pi_mutex"
     /\ bmutex[p] = 0
     /\ IF parts[p].spare = Null
        THEN /\ parts' = [parts EXCEPT ![p].spare = s.alloc]
             /\ UNCHANGED buf_free
        ELSE /\ buf_free' = buf_free \cup {s.alloc}
             /\ UNCHANGED parts
     /\ Set(t, [s EXCEPT !.pc = s.picont, !.picont = "none", !.alloc = Null])
     /\ UNCHANGED <<enabled, latch, bmutex, block, page, idx,
                    cur_index, dict_frozen, ops, hist>>

\* a variant of PiMutex that never keeps the block as the spare
PiMutexNoSpare(t) ==
  LET s == th[t]
      p == GetPart(IndexId(s.index))
  IN /\ s.pc = "pi_mutex"
     /\ bmutex[p] = 0
     /\ buf_free' = buf_free \cup {s.alloc}
     /\ Set(t, [s EXCEPT !.pc = s.picont, !.picont = "none", !.alloc = Null])
     /\ UNCHANGED <<enabled, parts, latch, bmutex, block, page, idx,
                    cur_index, dict_frozen, ops, hist>>

\* the section under blocks_mutex, and the release of an unused block
PiMutex(t) ==
  LET s == th[t]
      p == GetPart(IndexId(s.index))
  IN /\ s.pc = "pi_mutex"
     /\ bmutex[p] = 0
     /\ IF parts[p].spare = Null /\ enabled
        THEN /\ parts' = [parts EXCEPT ![p].spare = s.alloc]
             /\ UNCHANGED buf_free
        ELSE /\ buf_free' = buf_free \cup {s.alloc}
             /\ UNCHANGED parts
     /\ Set(t, [s EXCEPT !.pc = s.picont, !.picont = "none", !.alloc = Null])
     /\ UNCHANGED <<enabled, latch, bmutex, block, page, idx,
                    cur_index, dict_frozen, ops, hist>>

\* =====================================================================
\* btr_search_build_page_hash_index(index, block, left_bytes_fields)
\* =====================================================================

\* The loop that caches the next batch of (fold, record) pairs: of a run of
\* equal fingerprints the first record is kept with LEFT_SIDE, the last one
\* without, and the loop leaves with BuildBatch pairs.
RECURSIVE BuildGather(_, _, _, _)
BuildGather(b, rec, fr, lbf) ==
  IF rec = Supremum(b) THEN [fr |-> fr, rec |-> rec]
  ELSE LET f == RecFold(KeyOf(b, rec), PageIndexId(b), StripLeft(lbf))
           e == [fold |-> f, rec |-> rec]
           nxt == PageRecNext(b, rec)
           n == Len(fr)
       IN IF n = 0 THEN BuildGather(b, nxt, <<e>>, lbf)
          ELSE IF fr[n].fold = f
          THEN BuildGather(b, nxt,
                           IF IsLeftSide(lbf) THEN fr ELSE [fr EXCEPT ![n].rec = rec],
                           lbf)
          ELSE IF n + 1 = BuildBatch
          THEN [fr |-> Append(fr, e), rec |-> nxt]
          ELSE BuildGather(b, nxt, Append(fr, e), lbf)

\* while (n_cached) ha_insert_for_fold(&part, fr[--n_cached].fold, block, rec)
RECURSIVE InsertCached(_, _)
InsertCached(p, fr) ==
  IF Len(fr) = 0 THEN p
  ELSE InsertCached(PartInsert(p, fr[Len(fr)].fold, fr[Len(fr)].rec),
                    SubSeq(fr, 1, Len(fr) - 1))

\* the rebuild test read under the shared partition latch
Rebuild(blk, index, lbf) ==
  blk.index # Null /\ (blk.index # index \/ blk.curr_lbf # lbf)

\* the parameters are sensible for the index
Sensible(lbf) ==
  /\ StripLeft(lbf) # NoParams
  /\ NUniqueInTree >= BtrSearchGetNFields(StripLeft(lbf))

\* the build returns to its caller
BuildReturn(s) == [s EXCEPT !.pc = s.bcont, !.bcont = "none", !.rec = Null]

\* Entry: the enabled test and the section under the shared partition latch.
BuildEntry(t) ==
  LET s == th[t]
      b == s.b
      p == GetPart(IndexId(s.index))
  IN /\ s.pc = "b_entry"
     /\ IF ~enabled THEN Set(t, BuildReturn(s))
        ELSE /\ RdFree(p)
             /\ IF Rebuild(block[b], s.index, s.lbf)
                THEN Set(t, [s EXCEPT !.pc = "d_entry", !.dblock = b,
                                      !.gc = FALSE, !.dcont = "b_check"])
                ELSE Set(t, [s EXCEPT !.pc = "b_check"])
     /\ UNCHANGED <<enabled, parts, latch, bmutex, buf_free, block, page, idx,
                    cur_index, dict_frozen, ops, hist>>

\* a variant of BuildCheck that tests only for zero parameters and lets
\* parameters longer than n_unique_in_tree through
BuildCheckNonZero(t) ==
  LET s == th[t]
  IN /\ s.pc = "b_check"
     /\ IF StripLeft(s.lbf) # NoParams
        THEN Set(t, [s EXCEPT !.pc = "pi_check", !.picont = "b_commit",
                              !.rec = FirstRec(s.b)])
        ELSE Set(t, BuildReturn(s))
     /\ UNCHANGED <<enabled, parts, latch, bmutex, buf_free, block, page, idx,
                    cur_index, dict_frozen, ops, hist>>

\* the sanity checks of the parameters, and the start of the page scan
BuildCheck(t) ==
  LET s == th[t]
  IN /\ s.pc = "b_check"
     /\ IF Sensible(s.lbf)
        THEN Set(t, [s EXCEPT !.pc = "pi_check", !.picont = "b_commit",
                              !.rec = FirstRec(s.b)])
        ELSE Set(t, BuildReturn(s))
     /\ UNCHANGED <<enabled, parts, latch, bmutex, buf_free, block, page, idx,
                    cur_index, dict_frozen, ops, hist>>

\* a variant of BuildCommit that checks enabled under the exclusive latch
\* but not the parameters the block is hashed under
BuildCommitEnabledOnly(t) ==
  LET s == th[t]
      b == s.b
      index == s.index
      p == GetPart(IndexId(index))
      g == BuildGather(b, s.rec, << >>, s.lbf)
  IN /\ s.pc = "b_commit"
     /\ WrFree(p)
     /\ bmutex[p] = 0
     /\ IF ~enabled
        THEN /\ Set(t, BuildReturn(s))
             /\ UNCHANGED <<parts, block, idx>>
        ELSE /\ idx' = IF block[b].index = Null
                       THEN [idx EXCEPT ![index].ref_count = @ + 1] ELSE idx
             /\ block' = [block EXCEPT ![b].n_hash_helps = 0,
                                       ![b].index = index,
                                       ![b].curr_lbf = s.lbf]
             /\ parts' = [parts EXCEPT ![p] = InsertCached(@, g.fr)]
             /\ IF g.rec # Supremum(b)
                THEN Set(t, [s EXCEPT !.pc = "pi_check", !.picont = "b_commit",
                                      !.rec = g.rec])
                ELSE Set(t, BuildReturn(s))
     /\ UNCHANGED <<enabled, latch, bmutex, buf_free, page, cur_index,
                    dict_frozen, ops, hist>>

\* One batch: cache the pairs, then under the exclusive partition latch check
\* enabled and the block's parameters, take the index reference if the block
\* was not hashed, stamp the block and insert the batch.
BuildCommit(t) ==
  LET s == th[t]
      b == s.b
      index == s.index
      p == GetPart(IndexId(index))
      g == BuildGather(b, s.rec, << >>, s.lbf)
  IN /\ s.pc = "b_commit"
     /\ WrFree(p)
     /\ bmutex[p] = 0
     /\ IF ~enabled \/ (block[b].index # Null /\ block[b].curr_lbf # s.lbf)
        THEN /\ Set(t, BuildReturn(s))
             /\ UNCHANGED <<parts, block, idx>>
        ELSE /\ idx' = IF block[b].index = Null
                       THEN [idx EXCEPT ![index].ref_count = @ + 1] ELSE idx
             /\ block' = [block EXCEPT ![b].n_hash_helps = 0,
                                       ![b].index = index,
                                       ![b].curr_lbf = s.lbf]
             /\ parts' = [parts EXCEPT ![p] = InsertCached(@, g.fr)]
             /\ IF g.rec # Supremum(b)
                THEN Set(t, [s EXCEPT !.pc = "pi_check", !.picont = "b_commit",
                                      !.rec = g.rec])
                ELSE Set(t, BuildReturn(s))
     /\ UNCHANGED <<enabled, latch, bmutex, buf_free, page, cur_index,
                    dict_frozen, ops, hist>>

\* =====================================================================
\* btr_search_guess_on_hash(index, tuple, ge, latch_mode, cursor, mtr)
\* =====================================================================
BTR_SEARCH_BUILD_LIMIT == 100

\* spec-modelled: btr_cur_t::check_mismatch(tuple, ge, comp) reports a
\* mismatch unless the tuple falls on the expected side of the record:
\* not above it for PAGE_CUR_GE, not below it for PAGE_CUR_LE
CheckMismatch(tuple, key, ge) ==
  IF ge THEN Cmp(tuple, key) > 0 ELSE Cmp(tuple, key) < 0

\* fail: the cursor flag and last_hash_succ
Fail(s) == [s EXCEPT !.pc = "done", !.flag = "HASH_FAIL", !.ret = FALSE]
\* a variant of FailInfo that leaves last_hash_succ as it is
FailInfoKeep(ix, i) == ix

\* fail: index->search_info.last_hash_succ = FALSE
FailInfo(ix, i) == [ix EXCEPT ![i].last_hash_succ = FALSE]

\* ahi_release_and_fail: part.latch.rd_unlock()
AhiRelease(l, p, t) == [l EXCEPT ![p].r = @ \ {t}]

\* a variant of BlockRelease that keeps the page latch
BlockKeep(blk, b, t) == blk

\* block_and_ahi_release_and_fail: the page latch just taken is released
BlockRelease(blk, b, t) == UnlatchPage(blk, b, t)

\* mtr->release_last_page(): the page latch and the buffer-fix are released
ReleaseLastPage(blk, b, t) ==
  [UnlatchPage(blk, b, t) EXCEPT ![b].fix[t] = @ - 1]

\* the quick exits before the partition latch, the fingerprint of the tuple
GuessEntry(t) ==
  LET s == th[t]
      info == idx[s.index]
      nbf == StripLeft(info.lbf)
  IN /\ s.pc = "g_entry"
     /\ IF \/ ~info.last_hash_succ
           \/ info.n_hash_potential = 0
           \/ Len(s.tuple) < BtrSearchGetNFields(nbf)
        THEN Set(t, [s EXCEPT !.pc = "done", !.ret = FALSE])
        ELSE Set(t, [s EXCEPT !.pc = "g_lock", !.flag = "HASH", !.cnbf = nbf,
                              !.fold = DtupleFold(s.tuple, IndexId(s.index), nbf)])
     /\ UNCHANGED <<enabled, parts, latch, bmutex, buf_free, block, page, idx,
                    cur_index, dict_frozen, ops, hist>>

\* part.latch.rd_lock()
GuessLock(t) ==
  LET s == th[t]
      p == GetPart(IndexId(s.index))
  IN /\ s.pc = "g_lock"
     /\ RdFree(p)
     /\ latch' = [latch EXCEPT ![p].r = @ \cup {t}]
     /\ Set(t, [s EXCEPT !.pc = "g_search"])
     /\ UNCHANGED <<enabled, parts, bmutex, buf_free, block, page, idx,
                    cur_index, dict_frozen, ops, hist>>

\* a variant of GuessSearch that does not compare block->index with the
\* queried index before it buffer-fixes the block
GuessSearchAnyIndex(t) ==
  LET s == th[t]
      p == GetPart(IndexId(s.index))
      ch == Chain(parts[p], CalcHash(s.fold))
      k == FirstIdx(ch, LAMBDA a : parts[p].node[a].fold = s.fold)
      rec == parts[p].node[ch[k]].rec
      b == BlockFromAhi(rec)
      failed == /\ Set(t, Fail(s))
                /\ idx' = FailInfo(idx, s.index)
                /\ latch' = AhiRelease(latch, p, t)
                /\ block' = block
      fixed == /\ Set(t, [s EXCEPT !.pc = "g_validate", !.b = b, !.crec = rec])
               /\ block' = [LatchPage(block, b, t, s.lmode) EXCEPT ![b].fix[t] = @ + 1]
               /\ latch' = AhiRelease(latch, p, t)
               /\ idx' = idx
      stopped == /\ Set(t, [s EXCEPT !.pc = "abort"])
                 /\ block' = LatchPage(block, b, t, s.lmode)
                 /\ UNCHANGED <<latch, idx>>
  IN /\ s.pc = "g_search"
     /\ t \in latch[p].r
     /\ IF ~enabled \/ k = 0 THEN failed
        ELSE IF ~PageLatchFree(b, s.lmode) THEN failed
        ELSE IF block[b].state # "UNFIXED"
        THEN /\ Set(t, Fail(s))
             /\ idx' = FailInfo(idx, s.index)
             /\ latch' = AhiRelease(latch, p, t)
             /\ block' = BlockRelease(LatchPage(block, b, t, s.lmode), b, t)
        ELSE IF block[b].index = Null THEN stopped \/ failed \/ fixed
        ELSE IF block[b].index # s.index
        THEN fixed
        ELSE fixed
     /\ UNCHANGED <<enabled, parts, bmutex, buf_free, page, cur_index,
                    dict_frozen, ops, hist>>

\* The section under the shared partition latch: the chain walk, the
\* try-lock of the page latch, the state and index checks, the buffer-fix.
\* Reading block_index->id through a null block->index is undefined: the
\* thread stops, or the comparison comes out either way.
GuessSearch(t) ==
  LET s == th[t]
      p == GetPart(IndexId(s.index))
      ch == Chain(parts[p], CalcHash(s.fold))
      k == FirstIdx(ch, LAMBDA a : parts[p].node[a].fold = s.fold)
      rec == parts[p].node[ch[k]].rec
      b == BlockFromAhi(rec)
      failed == /\ Set(t, Fail(s))
                /\ idx' = FailInfo(idx, s.index)
                /\ latch' = AhiRelease(latch, p, t)
                /\ block' = block
      fixed == /\ Set(t, [s EXCEPT !.pc = "g_validate", !.b = b, !.crec = rec])
               /\ block' = [LatchPage(block, b, t, s.lmode) EXCEPT ![b].fix[t] = @ + 1]
               /\ latch' = AhiRelease(latch, p, t)
               /\ idx' = idx
      stopped == /\ Set(t, [s EXCEPT !.pc = "abort"])
                 /\ block' = LatchPage(block, b, t, s.lmode)
                 /\ UNCHANGED <<latch, idx>>
  IN /\ s.pc = "g_search"
     /\ t \in latch[p].r
     /\ IF ~enabled \/ k = 0 THEN failed
        ELSE IF ~PageLatchFree(b, s.lmode) THEN failed
        ELSE IF block[b].state # "UNFIXED"
        THEN /\ Set(t, Fail(s))
             /\ idx' = FailInfo(idx, s.index)
             /\ latch' = AhiRelease(latch, p, t)
             /\ block' = BlockRelease(LatchPage(block, b, t, s.lmode), b, t)
        ELSE IF block[b].index = Null THEN stopped \/ failed \/ fixed
        ELSE IF block[b].index # s.index
        THEN IF idx[block[b].index].freed THEN failed ELSE stopped
        ELSE fixed
     /\ UNCHANGED <<enabled, parts, bmutex, buf_free, page, cur_index,
                    dict_frozen, ops, hist>>

\* the validation of the guess within the page; a pointer that is not a
\* record of the page reads leftover bytes, which may pass or fail the checks
GuessValidate(t) ==
  LET s == th[t]
      b == s.b
      corrupted == /\ Set(t, Fail(s))
                   /\ block' = ReleaseLastPage(block, b, t)
                   /\ idx' = FailInfo(idx, s.index)
      succeeded == /\ Set(t, [s EXCEPT !.pc = "done", !.ret = TRUE])
                   /\ idx' = [idx EXCEPT
                        ![s.index].n_hash_potential =
                          IF @ < BTR_SEARCH_BUILD_LIMIT + 5 THEN @ + 1 ELSE @,
                        ![s.index].last_hash_succ = TRUE]
                   /\ block' = block
  IN /\ s.pc = "g_validate"
     /\ IF ~IsUserRec(b, s.crec) THEN corrupted \/ succeeded
        ELSE IF \/ IndexId(s.index) # PageIndexId(b)
                \/ CheckMismatch(s.tuple, KeyOf(b, s.crec), s.ge)
        THEN corrupted
        ELSE succeeded
     /\ UNCHANGED <<enabled, parts, latch, bmutex, buf_free, page, cur_index,
                    dict_frozen, ops, hist>>

\* =====================================================================
\* btr_search_update_hash_ref(cursor)
\* =====================================================================
UhrEntry(t) ==
  LET s == th[t]
      index == block[s.b].index
  IN /\ s.pc = "uhr_entry"
     /\ IF index = Null THEN Set(t, [s EXCEPT !.pc = "done"])
        ELSE IF idx[index].n_hash_potential = 0 THEN Set(t, [s EXCEPT !.pc = "done"])
        ELSE IF index # s.index
        THEN Set(t, [s EXCEPT !.pc = "d_entry", !.dblock = s.b, !.gc = FALSE,
                              !.dcont = "done"])
        ELSE Set(t, [s EXCEPT !.pc = "pi_check", !.picont = "uhr_commit"])
     /\ UNCHANGED <<enabled, parts, latch, bmutex, buf_free, block, page, idx,
                    cur_index, dict_frozen, ops, hist>>

\* the section under the exclusive partition latch
UhrCommit(t) ==
  LET s == th[t]
      b == s.b
      p == GetPart(IndexId(s.index))
      bytes_fields == block[b].curr_lbf
  IN /\ s.pc = "uhr_commit"
     /\ WrFree(p)
     /\ bmutex[p] = 0
     /\ IF /\ block[b].index # Null
           /\ bytes_fields = idx[s.index].lbf
           /\ enabled
           /\ s.crec \notin {Infimum(b), Supremum(b)}
        THEN parts' = [parts EXCEPT ![p] =
               PartInsert(@, RecFold(KeyOf(b, s.crec), IndexId(s.index),
                                     StripLeft(bytes_fields)), s.crec)]
        ELSE UNCHANGED parts
     /\ Set(t, [s EXCEPT !.pc = "done"])
     /\ UNCHANGED <<enabled, latch, bmutex, buf_free, block, page, idx,
                    cur_index, dict_frozen, ops, hist>>

\* =====================================================================
\* The page changes of the B-tree operations that call the handlers below
\* =====================================================================
\* the lowest heap offset of the page that no record occupies
LowestFree(pg) ==
  LET free == HeapOffsets \ {pg[k].off : k \in 1..Len(pg)}
  IN CHOOSE x \in free : \A y \in free : x <= y

\* the page after a record with the key was inserted behind position k
PageInsertAt(pg, k, key) ==
  SubSeq(pg, 1, k) \o <<[off |-> LowestFree(pg), key |-> key]>>
                   \o SubSeq(pg, k + 1, Len(pg))

\* the page after the record at position k was deleted
PageDeleteAt(pg, k) == SubSeq(pg, 1, k - 1) \o SubSeq(pg, k + 1, Len(pg))

\* the records are copied to the page from position k on
RECURSIVE CopyRecs(_, _, _)
CopyRecs(pg, recs, k) ==
  IF Len(recs) = 0 THEN pg
  ELSE CopyRecs(PageInsertAt(pg, k, Head(recs).key), Tail(recs), k + 1)

\* the key is in no page, page b has room, and behind position k the key
\* keeps the page in key order
FitsAfter(b, k, key) ==
  /\ Len(page[b]) < MaxRecs
  /\ \A c \in LeafBlocks : \A j \in 1..Len(page[c]) : page[c][j].key # key
  /\ k > 0 => Cmp(page[b][k].key, key) < 0
  /\ k < Len(page[b]) => Cmp(key, page[b][k + 1].key) < 0

\* =====================================================================
\* btr_search_update_hash_on_delete(cursor)
\* =====================================================================
DelEntry(t) ==
  LET s == th[t]
      b == s.b
      index == block[b].index
      n_bytes_fields == StripLeft(block[b].curr_lbf)
  IN /\ s.pc = "del_entry"
     /\ IF ~enabled \/ index = Null THEN Set(t, [s EXCEPT !.pc = "del_page"])
        ELSE IF index # s.index
        THEN Set(t, [s EXCEPT !.pc = "d_entry", !.dblock = b, !.gc = FALSE,
                              !.dcont = "del_page"])
        ELSE IF n_bytes_fields = NoParams THEN Set(t, [s EXCEPT !.pc = "abort"])
        ELSE Set(t, [s EXCEPT !.pc = "del_lock",
                              !.fold = RecFold(KeyOf(b, s.crec), IndexId(index),
                                               n_bytes_fields)])
     /\ UNCHANGED <<enabled, parts, latch, bmutex, buf_free, block, page, idx,
                    cur_index, dict_frozen, ops, hist>>

\* part.latch.wr_lock(SRW_LOCK_CALL)
DelLock(t) ==
  LET s == th[t]
      p == GetPart(IndexId(s.index))
  IN /\ s.pc = "del_lock"
     /\ WrFree(p)
     /\ latch' = [latch EXCEPT ![p].w = t]
     /\ Set(t, [s EXCEPT !.pc = "del_commit"])
     /\ UNCHANGED <<enabled, parts, bmutex, buf_free, block, page, idx,
                    cur_index, dict_frozen, ops, hist>>

\* a variant of DelCommit in which part.erase() returns with the latch when
\* it finds no node
DelCommitKeepLatch(t) ==
  LET s == th[t]
      b == s.b
      p == GetPart(IndexId(s.index))
      er == PartErase(parts[p], s.fold, s.crec)
  IN /\ s.pc = "del_commit"
     /\ latch[p].w = t
     /\ IF block[b].index # Null /\ enabled
        THEN IF block[b].index # s.index
             THEN /\ Set(t, [s EXCEPT !.pc = "abort"])
                  /\ UNCHANGED <<parts, buf_free, latch>>
             ELSE /\ er.found => bmutex[p] = 0
                  /\ parts' = [parts EXCEPT ![p] = er.p]
                  /\ buf_free' = FreeBlocks(buf_free, er.freed)
                  /\ IF er.found THEN latch' = [latch EXCEPT ![p].w = 0]
                     ELSE UNCHANGED latch
                  /\ Set(t, [s EXCEPT !.pc = "del_page"])
        ELSE /\ Set(t, [s EXCEPT !.pc = "del_page"])
             /\ latch' = [latch EXCEPT ![p].w = 0]
             /\ UNCHANGED <<parts, buf_free>>
     /\ UNCHANGED <<enabled, bmutex, block, page, idx, cur_index,
                    dict_frozen, ops, hist>>

\* the section under the exclusive partition latch; part.erase() takes
\* blocks_mutex when it finds the node, and releases the partition latch
\* whether it finds the node or not; without the erase the function
\* releases the latch itself
DelCommit(t) ==
  LET s == th[t]
      b == s.b
      p == GetPart(IndexId(s.index))
      er == PartErase(parts[p], s.fold, s.crec)
  IN /\ s.pc = "del_commit"
     /\ latch[p].w = t
     /\ IF block[b].index # Null /\ enabled
        THEN IF block[b].index # s.index
             THEN /\ Set(t, [s EXCEPT !.pc = "abort"])
                  /\ UNCHANGED <<parts, buf_free, latch>>
             ELSE /\ er.found => bmutex[p] = 0
                  /\ parts' = [parts EXCEPT ![p] = er.p]
                  /\ buf_free' = FreeBlocks(buf_free, er.freed)
                  /\ latch' = [latch EXCEPT ![p].w = 0]
                  /\ Set(t, [s EXCEPT !.pc = "del_page"])
        ELSE /\ Set(t, [s EXCEPT !.pc = "del_page"])
             /\ latch' = [latch EXCEPT ![p].w = 0]
             /\ UNCHANGED <<parts, buf_free>>
     /\ UNCHANGED <<enabled, bmutex, block, page, idx, cur_index,
                    dict_frozen, ops, hist>>

\* the caller then deletes the record from the page (page_cur_delete_rec)
DelPage(t) ==
  LET s == th[t]
  IN /\ s.pc = "del_page"
     /\ page' = [page EXCEPT ![s.b] = PageDeleteAt(@, PosOf(s.b, s.crec))]
     /\ Set(t, [s EXCEPT !.pc = "done"])
     /\ UNCHANGED <<enabled, parts, latch, bmutex, buf_free, block, idx,
                    cur_index, dict_frozen, ops, hist>>

\* =====================================================================
\* btr_search_update_hash_on_insert(cursor, reorg), reorg = false
\* =====================================================================
InsEntry(t) ==
  LET s == th[t]
      b == s.b
      index == block[b].index
      left_bytes_fields == block[b].curr_lbf
  IN /\ s.pc = "ins_entry"
     /\ IF ~enabled \/ index = Null THEN Set(t, [s EXCEPT !.pc = "done"])
        ELSE IF index # s.index
        THEN Set(t, [s EXCEPT !.pc = "d_entry", !.dblock = b, !.gc = FALSE,
                              !.dcont = "done"])
        ELSE IF s.flag = "HASH" /\ left_bytes_fields = s.cnbf
        THEN Set(t, [s EXCEPT !.pc = "ins_upd", !.lbf = left_bytes_fields])
        ELSE Set(t, [s EXCEPT !.pc = "pi_check", !.picont = "ins_commit",
                              !.lbf = left_bytes_fields])
     /\ UNCHANGED <<enabled, parts, latch, bmutex, buf_free, block, page, idx,
                    cur_index, dict_frozen, ops, hist>>

\* the cursor was positioned by the hash index with the block's parameters:
\* the node of the cursor record is redirected to the inserted record
InsUpd(t) ==
  LET s == th[t]
      b == s.b
      p == GetPart(IndexId(s.index))
      ins_rec == PageRecNext(b, s.crec)
  IN /\ s.pc = "ins_upd"
     /\ WrFree(p)
     /\ IF ~enabled \/ block[b].index = Null THEN UNCHANGED parts
        ELSE parts' = [parts EXCEPT ![p] =
               HaSearchAndUpdateIfFound(@, s.fold, s.crec, ins_rec)]
     /\ Set(t, [s EXCEPT !.pc = "done"])
     /\ UNCHANGED <<enabled, latch, bmutex, buf_free, block, page, idx,
                    cur_index, dict_frozen, ops, hist>>

\* a variant of InsertTodoPrev that picks the predecessor with LEFT_SIDE and
\* the inserted record without
InsertTodoPrevSwapped(b, rec, id, left_bytes_fields) ==
  LET n_bytes_fields == StripLeft(left_bytes_fields)
      ins_rec == PageRecNext(b, rec)
      ins == [fold |-> RecFold(KeyOf(b, ins_rec), id, n_bytes_fields),
              rec |-> ins_rec]
      rec_valid == rec # Infimum(b)
      fold == RecFold(KeyOf(b, rec), id, n_bytes_fields)
  IN IF ~rec_valid
     THEN IF IsLeftSide(left_bytes_fields) THEN <<ins>> ELSE << >>
     ELSE IF fold # ins.fold
     THEN IF ~IsLeftSide(left_bytes_fields) THEN <<ins>>
          ELSE <<[fold |-> fold, rec |-> rec]>>
     ELSE << >>

\* the node update_hash_on_insert inserts on the side of the predecessor
\* rec of the inserted record, when the block's parameters are
\* left_bytes_fields
InsertTodoPrev(b, rec, id, left_bytes_fields) ==
  LET n_bytes_fields == StripLeft(left_bytes_fields)
      ins_rec == PageRecNext(b, rec)
      ins == [fold |-> RecFold(KeyOf(b, ins_rec), id, n_bytes_fields),
              rec |-> ins_rec]
      rec_valid == rec # Infimum(b)
      fold == RecFold(KeyOf(b, rec), id, n_bytes_fields)
  IN IF ~rec_valid
     THEN IF IsLeftSide(left_bytes_fields) THEN <<ins>> ELSE << >>
     ELSE IF fold # ins.fold
     THEN IF IsLeftSide(left_bytes_fields) THEN <<ins>>
          ELSE <<[fold |-> fold, rec |-> rec]>>
     ELSE << >>

\* the node it inserts on the side of the successor next_rec
InsertTodoNext(b, rec, id, left_bytes_fields) ==
  LET n_bytes_fields == StripLeft(left_bytes_fields)
      ins_rec == PageRecNext(b, rec)
      next_rec == PageRecNext(b, ins_rec)
      ins == [fold |-> RecFold(KeyOf(b, ins_rec), id, n_bytes_fields),
              rec |-> ins_rec]
      next_is_supremum == next_rec = Supremum(b)
      next_fold == RecFold(KeyOf(b, next_rec), id, n_bytes_fields)
  IN IF next_is_supremum
     THEN IF n_bytes_fields = NoParams THEN <<ins>> ELSE << >>
     ELSE IF ins.fold # next_fold
     THEN IF n_bytes_fields = NoParams THEN <<ins>>
          ELSE <<[fold |-> next_fold, rec |-> next_rec]>>
     ELSE << >>

\* the nodes update_hash_on_insert inserts for the record behind rec, in
\* order
InsertTodo(b, rec, id, left_bytes_fields) ==
  InsertTodoPrev(b, rec, id, left_bytes_fields)
    \o InsertTodoNext(b, rec, id, left_bytes_fields)

\* ha_insert_for_fold() for each pair, in order
RECURSIVE InsertInOrder(_, _)
InsertInOrder(p, fr) ==
  IF Len(fr) = 0 THEN p
  ELSE InsertInOrder(PartInsert(p, Head(fr).fold, Head(fr).rec), Tail(fr))

\* after prepare_insert(): the partition latch is taken for the first node
\* to insert, and enabled and block->index are checked under it
InsCommit(t) ==
  LET s == th[t]
      b == s.b
      p == GetPart(IndexId(s.index))
      todo == InsertTodo(b, s.crec, IndexId(s.index), s.lbf)
  IN /\ s.pc = "ins_commit"
     /\ IF Len(todo) = 0 THEN UNCHANGED parts
        ELSE /\ WrFree(p)
             /\ bmutex[p] = 0
             /\ IF ~enabled \/ block[b].index = Null THEN UNCHANGED parts
                ELSE parts' = [parts EXCEPT ![p] = InsertInOrder(@, todo)]
     /\ Set(t, [s EXCEPT !.pc = "done"])
     /\ UNCHANGED <<enabled, latch, bmutex, buf_free, block, page, idx,
                    cur_index, dict_frozen, ops, hist>>

\* =====================================================================
\* btr_search_move_or_delete_hash_entries(new_block, block):
\* s.b is new_block, s.b2 is block
\* =====================================================================
\* a variant of MoveEntry that, finding new_block hashed, drops the hash
\* index of new_block and not that of block
MoveEntryDropNew(t) ==
  LET s == th[t]
      index == block[s.b2].index
      new_block_index == block[s.b].index
  IN /\ s.pc = "mv_entry"
     /\ IF ~enabled THEN Set(t, [s EXCEPT !.pc = "mv_free"])
        ELSE IF new_block_index # Null
        THEN Set(t, [s EXCEPT !.pc = "d_entry", !.dblock = s.b, !.gc = FALSE,
                              !.dcont = "mv_free"])
        ELSE IF index = Null THEN Set(t, [s EXCEPT !.pc = "mv_free"])
        ELSE Set(t, [s EXCEPT !.pc = "mv_lock", !.index = index])
     /\ UNCHANGED <<enabled, parts, latch, bmutex, buf_free, block, page, idx,
                    cur_index, dict_frozen, ops, hist>>

MoveEntry(t) ==
  LET s == th[t]
      index == block[s.b2].index
      new_block_index == block[s.b].index
  IN /\ s.pc = "mv_entry"
     /\ IF ~enabled THEN Set(t, [s EXCEPT !.pc = "mv_free"])
        ELSE IF new_block_index # Null
        THEN Set(t, [s EXCEPT !.pc = "d_entry", !.dblock = s.b2, !.gc = FALSE,
                              !.dcont = "mv_free"])
        ELSE IF index = Null THEN Set(t, [s EXCEPT !.pc = "mv_free"])
        ELSE Set(t, [s EXCEPT !.pc = "mv_lock", !.index = index])
     /\ UNCHANGED <<enabled, parts, latch, bmutex, buf_free, block, page, idx,
                    cur_index, dict_frozen, ops, hist>>

\* the section under the shared partition latch
MoveLock(t) ==
  LET s == th[t]
      p == GetPart(IndexId(s.index))
      left_bytes_fields == block[s.b2].curr_lbf
  IN /\ s.pc = "mv_lock"
     /\ RdFree(p)
     /\ IF idx[s.index].freed
        THEN /\ Set(t, [s EXCEPT !.pc = "d_entry", !.dblock = s.b2,
                                 !.gc = FALSE, !.dcont = "mv_free"])
             /\ UNCHANGED block
        ELSE IF block[s.b2].index # Null
        THEN /\ block' = [block EXCEPT ![s.b].next_lbf = left_bytes_fields]
             /\ IF StripLeft(left_bytes_fields) = NoParams
                THEN Set(t, [s EXCEPT !.pc = "abort"])
                ELSE Set(t, [s EXCEPT !.pc = "b_entry", !.bcont = "mv_free",
                                      !.lbf = left_bytes_fields])
        ELSE /\ Set(t, [s EXCEPT !.pc = "mv_free"])
             /\ UNCHANGED block
     /\ UNCHANGED <<enabled, parts, latch, bmutex, buf_free, page, idx,
                    cur_index, dict_frozen, ops, hist>>

\* the caller frees the source page, whose hash index is dropped
\* (btr_search_drop_page_hash_index on a page freed in the file)
MoveFree(t) ==
  LET s == th[t]
  IN /\ s.pc = "mv_free"
     /\ Set(t, [s EXCEPT !.pc = "d_entry", !.dblock = s.b2, !.gc = FALSE,
                         !.dcont = "mv_empty"])
     /\ UNCHANGED <<enabled, parts, latch, bmutex, buf_free, block, page, idx,
                    cur_index, dict_frozen, ops, hist>>

\* the freed page holds no record
MoveEmpty(t) ==
  LET s == th[t]
  IN /\ s.pc = "mv_empty"
     /\ page' = [page EXCEPT ![s.b2] = << >>]
     /\ Set(t, [s EXCEPT !.pc = "done"])
     /\ UNCHANGED <<enabled, parts, latch, bmutex, buf_free, block, idx,
                    cur_index, dict_frozen, ops, hist>>

\* =====================================================================
\* btr_sea::disable() and btr_sea::enable()
\* =====================================================================

\* a variant of XLockAll in which enable() takes the latches in descending
\* order
XLockAllDescending(t) ==
  LET s == th[t]
      i == IF s.op = "enable" THEN NParts - 1 - s.i ELSE s.i
  IN /\ s.pc = "x_lock"
     /\ WrFree(i)
     /\ latch' = [latch EXCEPT ![i].w = t]
     /\ Set(t, IF s.i + 1 < NParts THEN [s EXCEPT !.i = s.i + 1]
               ELSE [s EXCEPT !.i = 0,
                              !.pc = IF s.op = "disable" THEN "dis_body"
                                     ELSE "en_body"])
     /\ UNCHANGED <<enabled, parts, bmutex, buf_free, block, page, idx,
                    cur_index, dict_frozen, ops, hist>>

\* a variant of XLockAll that does not wait for the readers of a latch
XLockAllPastReaders(t) ==
  LET s == th[t]
  IN /\ s.pc = "x_lock"
     /\ latch[s.i].w = 0
     /\ latch' = [latch EXCEPT ![s.i].w = t]
     /\ Set(t, IF s.i + 1 < NParts THEN [s EXCEPT !.i = s.i + 1]
               ELSE [s EXCEPT !.i = 0,
                              !.pc = IF s.op = "disable" THEN "dis_body"
                                     ELSE "en_body"])
     /\ UNCHANGED <<enabled, parts, bmutex, buf_free, block, page, idx,
                    cur_index, dict_frozen, ops, hist>>

\* btr_search_x_lock_all(): the partition latches, in ascending order
XLockAll(t) ==
  LET s == th[t]
  IN /\ s.pc = "x_lock"
     /\ WrFree(s.i)
     /\ latch' = [latch EXCEPT ![s.i].w = t]
     /\ Set(t, IF s.i + 1 < NParts THEN [s EXCEPT !.i = s.i + 1]
               ELSE [s EXCEPT !.i = 0,
                              !.pc = IF s.op = "disable" THEN "dis_body"
                                     ELSE "en_body"])
     /\ UNCHANGED <<enabled, parts, bmutex, buf_free, block, page, idx,
                    cur_index, dict_frozen, ops, hist>>

\* btr_search_x_unlock_all()
XUnlockAll(l, t) == [p \in Parts |-> IF l[p].w = t THEN [l[p] EXCEPT !.w = 0] ELSE l[p]]

\* buf_pool_t::clear_hash_index(): block->index = nullptr on every block;
\* the freed indexes that were referenced are destroyed
\* a variant of ClearHashIndexBlocks that leaves block->index alone
ClearHashIndexNone(blk) == blk

ClearHashIndexBlocks(blk) == [b \in LeafBlocks |-> [blk[b] EXCEPT !.index = Null]]

Garbage(blk, ix) ==
  {i \in Indexes : ix[i].freed /\ \E b \in LeafBlocks : blk[b].index = i}

ClearHashIndexIdx(blk, ix) ==
  [i \in Indexes |-> IF i \in Garbage(blk, ix)
                     THEN [ix[i] EXCEPT !.lazy_freed = @ + 1] ELSE ix[i]]

\* a variant of DisableRefCount that leaves the counters alone
DisableRefCountNone(ix, cur) == ix

\* btr_search_disable_ref_count() on every table of the dictionary cache
DisableRefCount(ix, cur) == [ix EXCEPT ![cur].ref_count = 0]

\* dict_sys.freeze()
DisFreeze(t) ==
  LET s == th[t]
  IN /\ s.pc = "dis_freeze"
     /\ dict_frozen' = dict_frozen \cup {t}
     /\ Set(t, [s EXCEPT !.pc = "x_lock", !.i = 0])
     /\ UNCHANGED <<enabled, parts, latch, bmutex, buf_free, block, page, idx,
                    cur_index, ops, hist>>

\* from the test of enabled to buf_pool.clear_hash_index()
DisBody(t) ==
  LET s == th[t]
  IN /\ s.pc = "dis_body"
     /\ dict_frozen' = dict_frozen \ {t}
     /\ IF ~enabled
        THEN /\ latch' = XUnlockAll(latch, t)
             /\ Set(t, [s EXCEPT !.pc = "done", !.ret = FALSE])
             /\ UNCHANGED <<enabled, idx, block>>
        ELSE /\ enabled' = FALSE
             /\ idx' = ClearHashIndexIdx(block, DisableRefCount(idx, cur_index))
             /\ block' = ClearHashIndexBlocks(block)
             /\ Set(t, [s EXCEPT !.pc = "dis_mutex", !.i = 0, !.ret = TRUE])
             /\ UNCHANGED latch
     /\ UNCHANGED <<parts, bmutex, buf_free, page, cur_index, ops, hist>>

\* blocks_mutex.wr_lock() of every partition, in ascending order
DisMutex(t) ==
  LET s == th[t]
  IN /\ s.pc = "dis_mutex"
     /\ bmutex[s.i] = 0
     /\ bmutex' = [bmutex EXCEPT ![s.i] = t]
     /\ Set(t, IF s.i + 1 < NParts THEN [s EXCEPT !.i = s.i + 1]
               ELSE [s EXCEPT !.i = 0, !.pc = "dis_clear"])
     /\ UNCHANGED <<enabled, parts, latch, buf_free, block, page, idx,
                    cur_index, dict_frozen, ops, hist>>

\* the blocks every partition gives back in clear()
RECURSIVE ClearFreed(_, _)
ClearFreed(ps, i) ==
  IF i = NParts THEN << >> ELSE PartClear(ps[i]).freed \o ClearFreed(ps, i + 1)

\* btr_search.clear(), then the mutexes and the latches are released
DisClear(t) ==
  LET s == th[t]
  IN /\ s.pc = "dis_clear"
     /\ parts' = [p \in Parts |-> PartClear(parts[p]).p]
     /\ buf_free' = FreeBlocks(buf_free, ClearFreed(parts, 0))
     /\ bmutex' = [p \in Parts |-> IF bmutex[p] = t THEN 0 ELSE bmutex[p]]
     /\ latch' = XUnlockAll(latch, t)
     /\ Set(t, [s EXCEPT !.pc = "done"])
     /\ UNCHANGED <<enabled, block, page, idx, cur_index, dict_frozen, ops,
                    hist>>

\* btr_sea::alloc(hash_size)
Alloc(ps) == [p \in Parts |-> [ps[p] EXCEPT !.array = TRUE]]

\* enable(), after btr_search_x_lock_all()
\* a variant of EnBody that allocates the tables and leaves the flag alone
EnBodyKeepFlag(t) ==
  LET s == th[t]
  IN /\ s.pc = "en_body"
     /\ IF parts[0].array
        THEN UNCHANGED parts
        ELSE parts' = Alloc(parts)
     /\ latch' = XUnlockAll(latch, t)
     /\ Set(t, [s EXCEPT !.pc = "done"])
     /\ UNCHANGED <<enabled, bmutex, buf_free, block, page, idx, cur_index,
                    dict_frozen, ops, hist>>

EnBody(t) ==
  LET s == th[t]
  IN /\ s.pc = "en_body"
     /\ IF parts[0].array
        THEN UNCHANGED <<parts, enabled>>
        ELSE /\ parts' = Alloc(parts)
             /\ enabled' = TRUE
     /\ latch' = XUnlockAll(latch, t)
     /\ Set(t, [s EXCEPT !.pc = "done"])
     /\ UNCHANGED <<bmutex, buf_free, block, page, idx, cur_index,
                    dict_frozen, ops, hist>>

\* =====================================================================
\* Page eviction (buf_LRU_block_remove_hashed, buf_LRU_free_page)
\* =====================================================================
\* after the drop the block leaves the page hash for the free list
EvictFree(t) ==
  LET s == th[t]
  IN /\ s.pc = "ev_free"
     /\ block' = [block EXCEPT ![s.b].state = "NOT_USED"]
     /\ Set(t, [s EXCEPT !.pc = "done"])
     /\ UNCHANGED <<enabled, parts, latch, bmutex, buf_free, page, idx,
                    cur_index, dict_frozen, ops, hist>>

\* =====================================================================
\* The callers: an operation starts in an idle thread, which takes the page
\* latch the handler expects; Finish commits the mini-transaction.
\* =====================================================================
ParamSet == {Lbf(TRUE, 0, 1), Lbf(FALSE, 0, 1), Lbf(FALSE, 0, 2)}
LatchModes == {"s", "x"}

\* The search_info of an index is moved by every search on any page of the
\* index (btr_search_info_update_hash) without any latch: an operation that
\* reads it finds the values the searches before it left.
InfoSet ==
  {[lbf |-> l, pot |-> 1, succ |-> TRUE] : l \in ParamSet}
    \cup {[lbf |-> Lbf(TRUE, 0, 1), pot |-> 0, succ |-> FALSE]}

SetInfo(ix, i, v) ==
  [ix EXCEPT ![i].lbf = v.lbf, ![i].n_hash_potential = v.pot,
             ![i].last_hash_succ = v.succ]

AllIdle == \A u \in Threads : th[u].pc = "idle"
NoHist == [prev |-> <<"none", 0, FALSE>>, run |-> 0]
HistOff == [prev |-> <<"none", 0, FALSE>>, run |-> -1]

\* the history at the start and at the end of an operation; it is kept
\* only in behaviours that start with it switched on (run >= 0)
HistBegin(t) ==
  IF hist.run < 0 THEN hist
  ELSE IF AllIdle THEN [hist EXCEPT !.run = t] ELSE NoHist
HistEnd(t) ==
  IF hist.run < 0 THEN hist
  ELSE IF hist.run = t THEN [prev |-> <<th[t].op, th[t].b, th[t].gc0>>, run |-> 0]
  ELSE NoHist
HistEnv == IF hist.run < 0 THEN hist ELSE NoHist

\* The operations that are followed on their own are followed one at a
\* time: the record of the last one is put away before the next starts.
HistClear ==
  /\ hist # NoHist
  /\ hist' = NoHist
  /\ UNCHANGED <<enabled, parts, latch, bmutex, buf_free, block, page, idx,
                 cur_index, dict_frozen, th, ops>>

CanStart(t) == th[t].pc = "idle" /\ ops > 0

\* the page is in the buffer pool and its latch is granted in mode m
CanLatch(b, m) == block[b].state = "UNFIXED" /\ PageLatchFree(b, m)

Start(t, r) ==
  /\ Set(t, r)
  /\ ops' = ops - 1
  /\ hist' = HistBegin(t)

\* btr_search_guess_on_hash() has returned true
GuessSucceeded(t) == th[t].op = "guess" /\ th[t].pc = "done" /\ th[t].ret

\* a search tries the hash index before it descends the tree
OpGuess(t) ==
  /\ CanStart(t)
  /\ \E tuple \in Keys, ge \in BOOLEAN, m \in LatchModes, v \in InfoSet :
       /\ idx' = SetInfo(idx, cur_index, v)
       /\ Start(t, [Idle EXCEPT !.pc = "g_entry", !.op = "guess",
                                !.index = cur_index, !.tuple = tuple,
                                !.ge = ge, !.lmode = m])
  /\ UNCHANGED <<enabled, parts, latch, bmutex, buf_free, block, page,
                 cur_index, dict_frozen>>

\* the parameters a caller may hand to btr_search_build_page_hash_index():
\* the sensible ones, the side bit alone (no field and no byte), and one
\* field more than the tree has unique fields
BuildParamSet ==
  ParamSet \cup {Lbf(TRUE, 0, 0), Lbf(FALSE, 0, NUniqueInTree + 1)}

\* btr_cur_t::search_info_update() decided to build the page hash index
OpBuild(t) ==
  /\ CanStart(t)
  /\ \E b \in LeafBlocks, lbf \in BuildParamSet, m \in LatchModes :
       /\ CanLatch(b, m)
       /\ block' = LatchPage(block, b, t, m)
       /\ Start(t, [Idle EXCEPT !.pc = "b_entry", !.op = "build", !.b = b,
                                !.index = cur_index, !.lbf = lbf, !.lmode = m,
                                !.bcont = "done"])
  /\ UNCHANGED <<enabled, parts, latch, bmutex, buf_free, page, idx,
                 cur_index, dict_frozen>>

\* a caller that holds the page latch exclusively drops the page hash index
OpDrop(t) ==
  /\ CanStart(t)
  /\ \E b \in LeafBlocks, gc \in BOOLEAN :
       /\ CanLatch(b, "x")
       /\ block' = LatchPage(block, b, t, "x")
       /\ Start(t, [Idle EXCEPT !.pc = "d_entry", !.op = "drop", !.b = b,
                                !.dblock = b, !.gc = gc, !.gc0 = gc,
                                !.dcont = "done", !.lmode = "x"])
  /\ UNCHANGED <<enabled, parts, latch, bmutex, buf_free, page, idx,
                 cur_index, dict_frozen>>

\* a search that the hash index failed positioned its cursor by the tree
OpUpdateHashRef(t) ==
  /\ CanStart(t)
  /\ \E b \in LeafBlocks, m \in LatchModes :
       /\ CanLatch(b, m)
       /\ block' = LatchPage(block, b, t, m)
       /\ \E k \in 1..Len(page[b]), v \in InfoSet :
            /\ idx' = SetInfo(idx, cur_index, v)
            /\ Start(t, [Idle EXCEPT !.pc = "uhr_entry",
                                     !.op = "update_hash_ref", !.b = b,
                                     !.index = cur_index, !.lmode = m,
                                     !.flag = "HASH_FAIL",
                                     !.crec = RecPtrs(b)[k]])
  /\ UNCHANGED <<enabled, parts, latch, bmutex, buf_free, page,
                 cur_index, dict_frozen>>

\* a record was inserted behind the cursor, which the tree search positioned
OpInsert(t) ==
  /\ CanStart(t)
  /\ \E b \in LeafBlocks, key \in Keys :
       \E k \in 0..Len(page[b]) :
         /\ CanLatch(b, "x")
         /\ FitsAfter(b, k, key)
         /\ block' = LatchPage(block, b, t, "x")
         /\ page' = [page EXCEPT ![b] = PageInsertAt(@, k, key)]
         /\ Start(t, [Idle EXCEPT !.pc = "ins_entry", !.op = "insert",
                                  !.b = b, !.index = cur_index, !.lmode = "x",
                                  !.flag = "BINARY",
                                  !.crec = IF k = 0 THEN Infimum(b)
                                           ELSE RecPtrs(b)[k]])
  /\ UNCHANGED <<enabled, parts, latch, bmutex, buf_free, idx, cur_index,
                 dict_frozen>>

\* the tuple of a successful guess in BTR_MODIFY_LEAF mode (PAGE_CUR_LE) is
\* inserted behind the record the guess returned
OpInsertAfterGuess(t) ==
  LET s == th[t]
  IN /\ GuessSucceeded(t) /\ s.lmode = "x" /\ ~s.ge
     /\ ops > 0
     /\ FitsAfter(s.b, PosOf(s.b, s.crec), s.tuple)
     /\ page' = [page EXCEPT ![s.b] = PageInsertAt(@, PosOf(s.b, s.crec), s.tuple)]
     /\ Set(t, [s EXCEPT !.pc = "ins_entry", !.op = "insert"])
     /\ ops' = ops - 1
     /\ UNCHANGED <<enabled, parts, latch, bmutex, buf_free, block, idx,
                    cur_index, dict_frozen, hist>>

\* the record under the cursor is about to be deleted
OpDelete(t) ==
  /\ CanStart(t)
  /\ \E b \in LeafBlocks :
       \E k \in 1..Len(page[b]) :
         /\ CanLatch(b, "x")
         /\ block' = LatchPage(block, b, t, "x")
         /\ Start(t, [Idle EXCEPT !.pc = "del_entry", !.op = "delete",
                                  !.b = b, !.index = cur_index, !.lmode = "x",
                                  !.crec = RecPtrs(b)[k]])
  /\ UNCHANGED <<enabled, parts, latch, bmutex, buf_free, page, idx,
                 cur_index, dict_frozen>>

\* the records of page b2 were copied to page b, at its end or at its
\* start, before page b2 is freed
OpMove(t) ==
  /\ CanStart(t)
  /\ \E b \in LeafBlocks, b2 \in LeafBlocks :
       /\ b # b2
       /\ CanLatch(b, "x") /\ CanLatch(b2, "x")
       /\ Len(page[b2]) > 0
       /\ Len(page[b]) + Len(page[b2]) <= MaxRecs
       /\ \E at_end \in BOOLEAN :
            /\ \A i \in 1..Len(page[b]), j \in 1..Len(page[b2]) :
                 IF at_end THEN Cmp(page[b][i].key, page[b2][j].key) < 0
                 ELSE Cmp(page[b2][j].key, page[b][i].key) < 0
            /\ Len(page[b]) = 0 => at_end
            /\ page' = [page EXCEPT ![b] =
                 CopyRecs(@, page[b2], IF at_end THEN Len(@) ELSE 0)]
       /\ block' = LatchPage(LatchPage(block, b, t, "x"), b2, t, "x")
       /\ Start(t, [Idle EXCEPT !.pc = "mv_entry", !.op = "move", !.b = b,
                                !.b2 = b2, !.lmode = "x"])
  /\ UNCHANGED <<enabled, parts, latch, bmutex, buf_free, idx, cur_index,
                 dict_frozen>>

\* the buffer pool evicts a page that nobody has fixed or latched
OpEvict(t) ==
  /\ CanStart(t)
  /\ \E b \in LeafBlocks :
       /\ block[b].state = "UNFIXED"
       /\ block[b].x = 0 /\ block[b].s = {}
       /\ \A u \in Threads : block[b].fix[u] = 0
       /\ block' = [block EXCEPT ![b].state = "REMOVE_HASH"]
       /\ Start(t, [Idle EXCEPT !.pc = "d_entry", !.op = "evict", !.b = b,
                                !.dblock = b, !.dcont = "ev_free"])
  /\ UNCHANGED <<enabled, parts, latch, bmutex, buf_free, page, idx,
                 cur_index, dict_frozen>>

OpDisable(t) ==
  /\ CanStart(t)
  /\ Start(t, [Idle EXCEPT !.pc = "dis_freeze", !.op = "disable"])
  /\ UNCHANGED <<enabled, parts, latch, bmutex, buf_free, block, page, idx,
                 cur_index, dict_frozen>>

\* btr_sea::enable(resize): unless buf_pool_t::resize() is the caller, the
\* call returns at once while a change of the buffer pool size is pending
\* (changed: srv_buf_pool_old_size != srv_buf_pool_size, which is read only
\* when resize does not hold)
OpEnable(t) ==
  /\ CanStart(t)
  /\ \E resize \in BOOLEAN, changed \in BOOLEAN :
       /\ resize => ~changed
       /\ Start(t, [Idle EXCEPT !.pc = IF ~resize /\ changed THEN "done"
                                       ELSE "x_lock",
                                !.op = "enable", !.resize = resize,
                                !.changed = changed])
  /\ UNCHANGED <<enabled, parts, latch, bmutex, buf_free, block, page, idx,
                 cur_index, dict_frozen>>

\* the caller's mini-transaction commits: its page latches and buffer-fixes
\* are released
Finish(t) ==
  /\ Done(t)
  /\ block' = [b \in LeafBlocks |->
                 [block[b] EXCEPT !.s = @ \ {t},
                                  !.x = IF @ = t THEN 0 ELSE @,
                                  !.fix[t] = 0]]
  /\ Set(t, Idle)
  /\ hist' = HistEnd(t)
  /\ UNCHANGED <<enabled, parts, latch, bmutex, buf_free, page, idx,
                 cur_index, dict_frozen, ops>>

\* ---------------------------------------------------------- environment
\* the evicted page is read into its block again
Load(b) ==
  /\ block[b].state = "NOT_USED"
  /\ block' = [block EXCEPT ![b].state = "UNFIXED"]
  /\ hist' = HistEnv
  /\ UNCHANGED <<enabled, parts, latch, bmutex, buf_free, page, idx,
                 cur_index, dict_frozen, th, ops>>

\* DROP INDEX: the index leaves the dictionary cache; while pages are still
\* hashed under it the object stays as a freed index, and the index is
\* created again under the same id
MarkFreed ==
  /\ AllIdle
  /\ dict_frozen = {}
  /\ cur_index = 1
  /\ idx' = [idx EXCEPT ![1].freed = TRUE]
  /\ cur_index' = 2
  /\ hist' = HistEnv
  /\ UNCHANGED <<enabled, parts, latch, bmutex, buf_free, block, page,
                 dict_frozen, th, ops>>

\* ---------------------------------------------------------------- Init
InitInfo ==
  [ref_count |-> 0, freed |-> FALSE, lazy_freed |-> 0,
   lbf |-> Lbf(TRUE, 0, 1), n_hash_potential |-> 0, last_hash_succ |-> FALSE]

InitBlock ==
  [index |-> Null, curr_lbf |-> NoParams, next_lbf |-> NoParams,
   n_hash_helps |-> 0, state |-> "UNFIXED", x |-> 0, s |-> {},
   fix |-> [t \in Threads |-> 0]]

\* leaf page 1 holds key <<0,0>>; leaf page 2 holds <<0,1>>, <<1,0>>, <<1,1>>;
\* any further leaf page is empty
InitPage ==
  [b \in LeafBlocks |->
     IF b = 1 THEN <<[off |-> PAGE_HEAP_START, key |-> <<0, 0>>]>>
     ELSE IF b = 2
     THEN <<[off |-> PAGE_HEAP_START, key |-> <<0, 1>>],
            [off |-> PAGE_HEAP_START + 1, key |-> <<1, 0>>],
            [off |-> PAGE_HEAP_START + 2, key |-> <<1, 1>>]>>
     ELSE << >>]

\* Everything but the hash table and the blocks: the state after startup
\* with innodb_adaptive_hash_index=ON, and no history
InitRest ==
  /\ enabled = TRUE
  /\ latch = [p \in Parts |-> [w |-> 0, r |-> {}]]
  /\ bmutex = [p \in Parts |-> 0]
  /\ page = InitPage
  /\ cur_index = 1
  /\ dict_frozen = {}
  /\ th = [t \in Threads |-> Idle]

InitEmpty ==
  /\ InitRest
  /\ parts = Alloc([p \in Parts |-> EmptyPart])
  /\ buf_free = SlabBlocks
  /\ block = [b \in LeafBlocks |-> InitBlock]
  /\ idx = [i \in Indexes |-> InitInfo]

\* The partition and the free blocks after an undisturbed build of page b
\* with parameters lbf: per batch prepare_insert(), then the inserts.
RECURSIVE SeqBuildFrom(_, _, _, _)
SeqBuildFrom(r, b, rec, lbf) ==
  LET a == CHOOSE x \in r.free : \A y \in r.free : x <= y
      pi == IF r.p.spare = Null /\ r.free # {}
            THEN [p |-> [r.p EXCEPT !.spare = a], free |-> r.free \ {a}]
            ELSE r
      g == BuildGather(b, rec, << >>, lbf)
      q == [pi EXCEPT !.p = InsertCached(@, g.fr)]
  IN IF g.rec = Supremum(b) THEN q ELSE SeqBuildFrom(q, b, g.rec, lbf)

\* the state in which page HashedBlock has been built with HashedParams and
\* then page OtherBlock with OtherParams
HashedBlock == 2
HashedParams == Lbf(TRUE, 0, 1)
OtherBlock == 1
OtherParams == Lbf(FALSE, 0, 1)

InitHashed ==
  /\ InitRest
  /\ LET p0 == Alloc([p \in Parts |-> EmptyPart])
         r1 == SeqBuildFrom([p |-> p0[GetPart(IndexId(1))], free |-> SlabBlocks],
                            HashedBlock, FirstRec(HashedBlock), HashedParams)
         r2 == SeqBuildFrom(r1, OtherBlock, FirstRec(OtherBlock), OtherParams)
     IN /\ parts = [p0 EXCEPT ![GetPart(IndexId(1))] = r2.p]
        /\ buf_free = r2.free
  /\ block = [b \in LeafBlocks |->
                IF b = HashedBlock
                THEN [InitBlock EXCEPT !.index = 1, !.curr_lbf = HashedParams]
                ELSE IF b = OtherBlock
                THEN [InitBlock EXCEPT !.index = 1, !.curr_lbf = OtherParams]
                ELSE InitBlock]
  /\ idx = [i \in Indexes |->
              IF i = 1 THEN [InitInfo EXCEPT !.ref_count = 2] ELSE InitInfo]

\* one thread, from the state after startup, with the history
InitSeq == InitEmpty /\ hist = NoHist /\ ops = MaxOpsSeq

\* all threads, from the state after startup or from the state in which a
\* page has been built
Init == (InitEmpty \/ InitHashed) /\ hist = HistOff /\ ops = MaxOps

Step(t) ==
  \/ DropEntry(t) \/ DropWrFreed(t) \/ DropCommit(t)
  \/ PiCheck(t) \/ PiMutex(t)
  \/ BuildEntry(t) \/ BuildCheck(t) \/ BuildCommit(t)
  \/ GuessEntry(t) \/ GuessLock(t) \/ GuessSearch(t) \/ GuessValidate(t)
  \/ UhrEntry(t) \/ UhrCommit(t)
  \/ DelEntry(t) \/ DelLock(t) \/ DelCommit(t) \/ DelPage(t)
  \/ InsEntry(t) \/ InsUpd(t) \/ InsCommit(t)
  \/ MoveEntry(t) \/ MoveLock(t) \/ MoveFree(t) \/ MoveEmpty(t)
  \/ DisFreeze(t) \/ XLockAll(t) \/ DisBody(t) \/ DisMutex(t) \/ DisClear(t)
  \/ EnBody(t)
  \/ EvictFree(t)

\* the operations other than the search that tries the hash index
BeginChange(t) ==
  \/ OpBuild(t) \/ OpDrop(t) \/ OpUpdateHashRef(t)
  \/ OpInsert(t) \/ OpInsertAfterGuess(t) \/ OpDelete(t) \/ OpMove(t)
  \/ OpEvict(t) \/ OpDisable(t) \/ OpEnable(t)

Begin(t) == OpGuess(t) \/ BeginChange(t)

\* the searches that try the hash index run in thread 1, against every
\* other operation in any thread
Next ==
  \/ OpGuess(1)
  \/ \E t \in Threads : BeginChange(t) \/ Step(t) \/ Finish(t)
  \/ \E b \in LeafBlocks : Load(b)
  \/ MarkFreed

Spec == Init /\ [][Next]_vars

\* the operations of one thread, one after the other
NextSeq ==
  \/ Begin(1) \/ Step(1) \/ Finish(1)
  \/ \E b \in LeafBlocks : Load(b)
  \/ MarkFreed

SpecSeq == InitSeq /\ [][NextSeq]_vars

\* A builder, a thread that updates the hash reference of the record its
\* cursor is on, and the searches of the builder's thread: the page latch of
\* the two is shared, so the operations interleave between the batches
InitRace == InitHashed /\ hist = NoHist /\ ops = MaxOpsSeq

StepRace(t) ==
  \/ DropEntry(t) \/ DropCommit(t)
  \/ PiCheck(t) \/ PiMutex(t)
  \/ BuildEntry(t) \/ BuildCheck(t) \/ BuildCommit(t)
  \/ GuessEntry(t) \/ GuessLock(t) \/ GuessSearch(t) \/ GuessValidate(t)
  \/ UhrEntry(t) \/ UhrCommit(t)

NextRace ==
  \/ OpBuild(1) \/ OpGuess(1) \/ OpUpdateHashRef(NThreads)
  \/ \E t \in Threads : StepRace(t) \/ Finish(t)

SpecRace == InitRace /\ [][NextRace]_vars

\* the state InitHashed describes is one that builds leave
ReachHashed == InitHashed

\* =====================================================================
\* The partition operations on their own: one caller that holds the
\* partition latch exclusively (and blocks_mutex where the code takes it)
\* inserts, erases, removes by page and redirects nodes.
\* =====================================================================
PartUnderTest == GetPart(IndexId(1))
PartFolds == 0..MaxFold
\* the record pointers handed to them: the first record of every leaf page
PartRecs == {FirstRec(b) : b \in LeafBlocks}

\* the address of the node that erase(fold, rec) unlinks, or Null
ErasedNode(p, fold, rec) ==
  LET k == EraseIdx(p, fold, rec)
  IN IF k = 0 THEN Null ELSE Chain(p, CalcHash(fold))[k]

\* insert(fold, rec) would need a new node, the tail slab page has no room
\* (or there is none) and there is no spare
Shortage(p, fold) ==
  /\ \A k \in 1..Len(Chain(p, CalcHash(fold))) :
       p.node[Chain(p, CalcHash(fold))[k]].fold # fold
  /\ LastBlock(p) = Null \/ ~HasRoom(p.free_offset[LastBlock(p)])
  /\ p.spare = Null

PartPrepare ==
  /\ hist = NoHist
  /\ parts[PartUnderTest].spare = Null
  /\ buf_free # {}
  /\ LET a == CHOOSE x \in buf_free : \A y \in buf_free : x <= y
     IN /\ parts' = [parts EXCEPT ![PartUnderTest].spare = a]
        /\ buf_free' = buf_free \ {a}
  /\ hist' = [prev |-> <<"prepare", 0, FALSE>>, run |-> 0]
  /\ UNCHANGED <<enabled, latch, bmutex, block, page, idx, cur_index,
                 dict_frozen, th, ops>>

PartOpInsert ==
  /\ hist = NoHist
  /\ \E fold \in PartFolds, rec \in PartRecs :
       /\ parts' = [parts EXCEPT ![PartUnderTest] = PartInsert(@, fold, rec)]
       /\ hist' = [prev |-> <<"insert",
                              IF Shortage(parts[PartUnderTest], fold) THEN 1 ELSE 0,
                              \E a \in Linked(parts[PartUnderTest]) :
                                /\ parts[PartUnderTest].node[a].fold = fold
                                /\ parts[PartUnderTest].node[a].rec # rec>>,
                   run |-> 0]
  /\ UNCHANGED <<enabled, latch, bmutex, buf_free, block, page, idx,
                 cur_index, dict_frozen, th, ops>>

PartOpErase ==
  /\ hist = NoHist
  /\ \E fold \in PartFolds, rec \in PartRecs :
       LET p == parts[PartUnderTest]
           r == PartErase(p, fold, rec)
           n == ErasedNode(p, fold, rec)
       IN /\ parts' = [parts EXCEPT ![PartUnderTest] = r.p]
          /\ buf_free' = FreeBlocks(buf_free, r.freed)
          /\ hist' = [prev |-> <<"erase", n, n # Null /\ n # TopNode(p)>>,
                      run |-> 0]
  /\ UNCHANGED <<enabled, latch, bmutex, block, page, idx, cur_index,
                 dict_frozen, th, ops>>

PartOpRemoveAll ==
  /\ hist = NoHist
  /\ \E fold \in PartFolds, b \in LeafBlocks :
       LET p == parts[PartUnderTest]
           r == HaRemoveAllNodesToPage([p |-> p, freed |-> << >>],
                                       fold, Frame(b))
           q == parts'[PartUnderTest]
           before == Chain(p, CalcHash(fold))
           after == Chain(q, CalcHash(fold))
       IN /\ parts' = [parts EXCEPT ![PartUnderTest] = r.p]
          /\ buf_free' = FreeBlocks(buf_free, r.freed)
          /\ hist' = [prev |-> <<"remove_all", Len(before) - Len(after),
                                 \E k \in 1..Len(after) :
                                   q.node[after[k]].fold # p.node[after[k]].fold>>,
                      run |-> 0]
  /\ UNCHANGED <<enabled, latch, bmutex, block, page, idx, cur_index,
                 dict_frozen, th, ops>>

PartOpUpdate ==
  /\ hist = NoHist
  /\ \E fold \in PartFolds, rec \in PartRecs, new_rec \in PartRecs :
       /\ parts' = [parts EXCEPT ![PartUnderTest] =
                      HaSearchAndUpdateIfFound(@, fold, rec, new_rec)]
       /\ hist' = [prev |-> <<"update", ErasedNode(parts[PartUnderTest], fold, rec),
                              rec # new_rec>>,
                   run |-> 0]
  /\ UNCHANGED <<enabled, latch, bmutex, buf_free, block, page, idx,
                 cur_index, dict_frozen, th, ops>>

NextPart ==
  \/ PartPrepare \/ PartOpInsert \/ PartOpErase \/ PartOpRemoveAll
  \/ PartOpUpdate \/ HistClear

SpecPart == InitSeq /\ [][NextPart]_vars

\* =====================================================================
\* btr_search_info_update_hash(cursor) on its own: the searches of one
\* index, one after the other, each with the match counts of its cursor
\* =====================================================================
\* largest low_bytes and up_bytes of a cursor
MaxMatchBytes == 1

\* the cursor after a search that did not use the hash index
Cursors ==
  [low_match : 0..NUniqueInTree, low_bytes : 0..MaxMatchBytes,
   up_match : 0..NUniqueInTree, up_bytes : 0..MaxMatchBytes]

\* int(match << 16 | bytes)
PairCmp(n_fields, n_bytes) == n_fields * 65536 + n_bytes

\* a variant of IncrementPotential that does not saturate
IncrementPotentialAlways(n_hash_potential) == n_hash_potential + 1

\* increment_potential: n_hash_potential saturates at BTR_SEARCH_BUILD_LIMIT + 5
IncrementPotential(n_hash_potential) ==
  IF n_hash_potential < BTR_SEARCH_BUILD_LIMIT + 5 THEN n_hash_potential + 1
  ELSE n_hash_potential

\* a variant of NewRecommendation that takes the shortest distinguishing
\* prefix first and cuts it to n_unique fields afterwards
NewRecommendationShortest(c) ==
  LET cmp == PairCmp(c.up_match, c.up_bytes) - PairCmp(c.low_match, c.low_bytes)
      cut(l) == IF BtrSearchGetNFields(StripLeft(l)) > NUniqueInTree
                THEN Lbf(IsLeftSide(l), 0, NUniqueInTree) ELSE l
  IN IF cmp >= 0
     THEN IF c.low_match < c.up_match THEN cut(Lbf(TRUE, 0, c.low_match + 1))
          ELSE cut(Lbf(TRUE, c.low_bytes + 1, c.low_match))
     ELSE IF c.low_match > c.up_match THEN cut(Lbf(FALSE, 0, c.up_match + 1))
          ELSE cut(Lbf(FALSE, c.up_bytes + 1, c.up_match))

\* the new recommendation for the cursor
NewRecommendation(c) ==
  LET cmp == PairCmp(c.up_match, c.up_bytes) - PairCmp(c.low_match, c.low_bytes)
  IN IF cmp >= 0
     THEN IF c.up_match >= NUniqueInTree THEN Lbf(TRUE, 0, NUniqueInTree)
          ELSE IF c.low_match < c.up_match THEN Lbf(TRUE, 0, c.low_match + 1)
          ELSE Lbf(TRUE, c.low_bytes + 1, c.low_match)
     ELSE IF c.low_match >= NUniqueInTree THEN Lbf(FALSE, 0, NUniqueInTree)
          ELSE IF c.low_match > c.up_match THEN Lbf(FALSE, 0, c.up_match + 1)
          ELSE Lbf(FALSE, c.up_bytes + 1, c.up_match)

\* a variant of BtrSearchInfoUpdateHash that keeps the recommendation when
\* it lies on the expected side of the low match
BtrSearchInfoUpdateHashKeepLow(info, c) ==
  LET n_hash_potential == info.n_hash_potential
      left_bytes_fields == info.lbf
      left_side == IsLeftSide(left_bytes_fields)
      info_cmp == PairCmp(NFieldsOf(StripLeft(left_bytes_fields)),
                          NBytesOf(StripLeft(left_bytes_fields)))
      low_cmp == PairCmp(c.low_match, c.low_bytes)
      up_cmp == PairCmp(c.up_match, c.up_bytes)
      increment_potential ==
        [lbf |-> left_bytes_fields,
         n_hash_potential |-> IncrementPotential(n_hash_potential),
         reset |-> FALSE]
  IN IF n_hash_potential = 0
     THEN [lbf |-> Lbf(TRUE, 0, 1), n_hash_potential |-> 1, reset |-> TRUE]
     ELSE IF NFieldsOf(left_bytes_fields) >= NUniqueInTree
             /\ c.up_match >= NUniqueInTree
     THEN increment_potential
     ELSE IF left_side = (info_cmp <= low_cmp)
     THEN increment_potential
     ELSE [lbf |-> NewRecommendation(c),
           n_hash_potential |-> IF up_cmp - low_cmp # 0 THEN 1 ELSE 0,
           reset |-> TRUE]

\* a variant of BtrSearchInfoUpdateHash that, finding n_hash_potential = 0,
\* leaves the recommendation as it is
BtrSearchInfoUpdateHashKeepParams(info, c) ==
  LET n_hash_potential == info.n_hash_potential
      left_bytes_fields == info.lbf
      left_side == IsLeftSide(left_bytes_fields)
      info_cmp == PairCmp(NFieldsOf(StripLeft(left_bytes_fields)),
                          NBytesOf(StripLeft(left_bytes_fields)))
      low_cmp == PairCmp(c.low_match, c.low_bytes)
      up_cmp == PairCmp(c.up_match, c.up_bytes)
      increment_potential ==
        [lbf |-> left_bytes_fields,
         n_hash_potential |-> IncrementPotential(n_hash_potential),
         reset |-> FALSE]
      set_new_recommendation ==
        [lbf |-> NewRecommendation(c),
         n_hash_potential |-> IF up_cmp - low_cmp # 0 THEN 1 ELSE 0,
         reset |-> TRUE]
  IN IF n_hash_potential = 0
     THEN [lbf |-> left_bytes_fields, n_hash_potential |-> 1, reset |-> TRUE]
     ELSE IF NFieldsOf(left_bytes_fields) >= NUniqueInTree
             /\ c.up_match >= NUniqueInTree
     THEN increment_potential
     ELSE IF left_side = (info_cmp <= low_cmp)
     THEN set_new_recommendation
     ELSE IF left_side = (info_cmp <= up_cmp)
     THEN increment_potential
     ELSE set_new_recommendation

\* btr_search_info_update_hash(cursor): the recommendation and the
\* potential of the index after the call, and whether the hash analysis
\* was reset
BtrSearchInfoUpdateHash(info, c) ==
  LET n_hash_potential == info.n_hash_potential
      left_bytes_fields == info.lbf
      left_side == IsLeftSide(left_bytes_fields)
      info_cmp == PairCmp(NFieldsOf(StripLeft(left_bytes_fields)),
                          NBytesOf(StripLeft(left_bytes_fields)))
      low_cmp == PairCmp(c.low_match, c.low_bytes)
      up_cmp == PairCmp(c.up_match, c.up_bytes)
      increment_potential ==
        [lbf |-> left_bytes_fields,
         n_hash_potential |-> IncrementPotential(n_hash_potential),
         reset |-> FALSE]
      set_new_recommendation ==
        [lbf |-> NewRecommendation(c),
         n_hash_potential |-> IF up_cmp - low_cmp # 0 THEN 1 ELSE 0,
         reset |-> TRUE]
  IN IF n_hash_potential = 0
     THEN [lbf |-> Lbf(TRUE, 0, 1), n_hash_potential |-> 1, reset |-> TRUE]
     ELSE IF NFieldsOf(left_bytes_fields) >= NUniqueInTree
             /\ c.up_match >= NUniqueInTree
     THEN increment_potential
     ELSE IF left_side = (info_cmp <= low_cmp)
     THEN set_new_recommendation
     ELSE IF left_side = (info_cmp <= up_cmp)
     THEN increment_potential
     ELSE set_new_recommendation

\* one search of index 1: the history keeps the search info before the call
\* and the cursor, and whether the hash analysis was reset
OpInfoUpdateHash ==
  /\ hist = NoHist
  /\ \E c \in Cursors :
       LET r == BtrSearchInfoUpdateHash(idx[1], c)
       IN /\ idx' = [idx EXCEPT ![1].lbf = r.lbf,
                                ![1].n_hash_potential = r.n_hash_potential]
          /\ hist' = [prev |-> <<"info_update_hash",
                                 [lbf |-> idx[1].lbf,
                                  n_hash_potential |-> idx[1].n_hash_potential,
                                  cursor |-> c],
                                 r.reset>>,
                      run |-> 0]
  /\ UNCHANGED <<enabled, parts, latch, bmutex, buf_free, block, page,
                 cur_index, dict_frozen, th, ops>>

NextInfo == OpInfoUpdateHash \/ HistClear

SpecInfo == InitSeq /\ [][NextInfo]_vars

\* ---------------------------------------------------------------------
\* Slab compaction
\* ---------------------------------------------------------------------
\* the addresses of the slots of slab page b below its free_offset
UsedSlots(p, b) == {Frame(b) + o : o \in {x \in SlotOffsets : x < p.free_offset[b]}}

\* the chain nodes that live in slab page b
NodesOn(p, b) == {a \in Linked(p) : BlockFromAhi(a) = b}

ListedBlocks(p) == {p.blocks[k] : k \in 1..Len(p.blocks)}

SlabCompact(p) ==
  /\ \A b \in ListedBlocks(p) :
       /\ NodesOn(p, b) = UsedSlots(p, b)
       /\ p.free_offset[b] = Cardinality(NodesOn(p, b)) * SizeofNode
       /\ p.free_offset[b] > 0
  /\ \A a \in Linked(p) : BlockFromAhi(a) \in ListedBlocks(p)
  /\ \A k \in 1..(Len(p.blocks) - 1) : ~HasRoom(p.free_offset[p.blocks[k]])

\* erasing the node at position k of cell c, when it is not the top node,
\* leaves the top node's fold and rec in the erased slot, linked, and the
\* top slot unused
EraseMovesTop(p) ==
  \A c \in 0..(NCells - 1) : \A k \in 1..Len(Chain(p, c)) :
    LET n == Chain(p, c)[k]
        top == TopNode(p)
        q == UnlinkAndCleanup(p, c, k).p
    IN n # top =>
         /\ q.node[n].fold = p.node[top].fold
         /\ q.node[n].rec = p.node[top].rec
         /\ n \in Linked(q)
         /\ top \notin Linked(q)
         /\ Linked(q) = Linked(p) \ {top}

\* C10 (P3 / I5): after any sequence of inserts, erases and removals by
\* page the nodes of every listed slab page occupy exactly the slots below
\* its free_offset, without holes, only the tail page may have room, the
\* free_offset is the number of live nodes times the node size, and erasing
\* a node that is not the top node moves the top node into the erased slot.
C10_SlabCompaction ==
  /\ \A p \in Parts : SlabCompact(parts[p])
  /\ EraseMovesTop(parts[PartUnderTest])
  /\ hist.prev[1] = "erase" /\ hist.prev[3] => hist.prev[2] \in Linked(parts[PartUnderTest])

\* an erase of a node below the top has just moved the only node of the
\* second slab page into the first page, which is full again
C10_Witness ==
  /\ hist.prev[1] = "erase" /\ hist.prev[3]
  /\ Len(parts[PartUnderTest].blocks) = 1
  /\ ~HasRoom(parts[PartUnderTest].free_offset[parts[PartUnderTest].blocks[1]])
  /\ hist.prev[2] \in Linked(parts[PartUnderTest])

\* ---------------------------------------------------------------------
\* What a thread holds
\* ---------------------------------------------------------------------
HoldsPartLatch(t) == \E p \in Parts : latch[p].w = t \/ t \in latch[p].r
HoldsPageLatch(t, b) == block[b].x = t \/ t \in block[b].s
HoldsNothing(t) ==
  /\ ~HoldsPartLatch(t)
  /\ \A b \in LeafBlocks : ~HoldsPageLatch(t, b) /\ block[b].fix[t] = 0

GuessReturned(t) == th[t].op = "guess" /\ th[t].pc = "done"

\* C1: when btr_search_guess_on_hash returns false, on whatever path, the
\* caller holds no partition latch and no page latch, and no block is
\* buffer-fixed more than at entry (a searching thread enters with nothing
\* fixed), also when the block is being evicted.
C1_GuessFailHoldsNothing ==
  \A t \in Threads : GuessReturned(t) /\ ~th[t].ret => HoldsNothing(t)

\* a guess found a node, got the page latch and failed on the state of the
\* block, which another thread is evicting
C1_Witness ==
  \E t \in Threads, u \in Threads :
    /\ GuessReturned(t) /\ ~th[t].ret /\ th[t].flag = "HASH_FAIL"
    /\ th[u].op = "evict" /\ block[th[u].b].state = "REMOVE_HASH"
    /\ LET p == parts[GetPart(IndexId(th[t].index))]
           ch == Chain(p, CalcHash(th[t].fold))
       IN \E k \in 1..Len(ch) :
            /\ p.node[ch[k]].fold = th[t].fold
            /\ BlockFromAhi(p.node[ch[k]].rec) = th[u].b

\* C2: when the guess returns true the block is buffer-fixed exactly once
\* more than at entry, its page latch is held in the requested mode (shared
\* for BTR_SEARCH_LEAF, exclusive for BTR_MODIFY_LEAF), the partition latch
\* has been released, and the block is not in REMOVE_HASH.
C2_GuessSuccessHolds ==
  \A t \in Threads : GuessReturned(t) /\ th[t].ret =>
    LET b == th[t].b
    IN /\ block[b].fix[t] = 1
       /\ IF th[t].lmode = "s" THEN t \in block[b].s /\ block[b].x # t
          ELSE block[b].x = t /\ block[b].s = {}
       /\ ~HoldsPartLatch(t)
       /\ block[b].state = "UNFIXED"
       /\ \A c \in LeafBlocks \ {b} : ~HoldsPageLatch(t, c) /\ block[c].fix[t] = 0

\* a guess in BTR_MODIFY_LEAF mode has succeeded
C2_Witness ==
  \E t \in Threads :
    GuessReturned(t) /\ th[t].ret /\ th[t].lmode = "x" /\ block[th[t].b].x = t

\* ---------------------------------------------------------------------
\* Nodes and hashed blocks
\* ---------------------------------------------------------------------
\* node a of partition p points to a record of a block that is hashed, and
\* carries the fingerprint of that record under the block's parameters
NodeValid(p, a) ==
  LET rec == p.node[a].rec
      b == BlockFromAhi(rec)
  IN /\ b \in LeafBlocks
     /\ block[b].index # Null
     /\ IsUserRec(b, rec)
     /\ p.node[a].fold = RecFold(KeyOf(b, rec), PageIndexId(b),
                                 StripLeft(block[b].curr_lbf))

\* C4 (I2 / I3): whenever the partition latch can be held in shared mode,
\* every node points into a block whose index is set and whose current
\* parameters are the ones the node's fold was computed with; no node
\* survives a completed drop that set block->index to null.
C4_NodesPointToHashedBlocks ==
  \A p \in Parts : latch[p].w = 0 =>
    \A a \in Linked(parts[p]) : NodeValid(parts[p], a)

\* C5 (I4 / P5): whenever nobody holds the partition latch exclusively, the
\* ref_count of every index object equals the number of blocks whose index
\* is that object.
RefCountExact(i) ==
  idx[i].ref_count = Cardinality({b \in LeafBlocks : block[b].index = i})

C5_RefCountExact ==
  \A i \in Indexes :
    latch[GetPart(IndexId(i))].w = 0 /\ idx[i].lazy_freed = 0 => RefCountExact(i)

\* a drop has released the reference of its block while another thread is
\* in the middle of a build, and one block is left hashed
C5_Witness ==
  \E t \in Threads, u \in Threads :
    /\ th[t].op = "drop" /\ th[t].pc = "done" /\ block[th[t].b].index = Null
    /\ th[u].op \in {"build", "move"} /\ th[u].pc = "b_commit"
    /\ idx[1].ref_count = 1
    /\ latch[GetPart(IndexId(1))].w = 0

\* C6 (P7): after disable() has found the index enabled and returned, and
\* for as long as the index stays disabled (no other disable() is between
\* clearing the flag and clearing the partitions), every block->index is
\* null, the ref_count of every index of the dictionary cache is 0, and
\* every partition has no node: its cell array is freed and its slab list
\* is empty.
DisableInProgress == \E t \in Threads : th[t].pc \in {"dis_mutex", "dis_clear"}

C6_DisableLeavesNothing ==
  ~enabled /\ ~DisableInProgress =>
    /\ \A b \in LeafBlocks : block[b].index = Null
    /\ idx[cur_index].ref_count = 0
    /\ \A p \in Parts :
         /\ ~parts[p].array
         /\ parts[p].blocks = << >>
         /\ parts[p].spare = Null
         /\ Linked(parts[p]) = {}

\* disable() has emptied a populated index while another thread was in the
\* middle of an operation
C6_Witness ==
  \E t \in Threads, u \in Threads :
    /\ th[t].op = "disable" /\ th[t].pc = "done" /\ th[t].ret /\ ~enabled
    /\ th[u].op = "build" /\ th[u].pc = "b_commit"
    /\ th[u].rec # FirstRec(th[u].b)
    /\ buf_free = SlabBlocks

\* ---------------------------------------------------------------------
\* Lock order and progress
\* ---------------------------------------------------------------------
Running(t) == th[t].pc \notin {"idle", "abort"}

\* the positions at which a thread asks for a lock and waits for it
WaitsForDictSys(t) == th[t].pc = "dis_freeze"
WaitsForPartLatch(t) ==
  \/ th[t].pc \in {"g_lock", "d_wrf", "x_lock", "uhr_commit", "b_commit",
                   "del_lock", "ins_upd", "mv_lock"}
  \/ /\ th[t].pc = "ins_commit"
     /\ Len(InsertTodo(th[t].b, th[t].crec, IndexId(th[t].index), th[t].lbf)) > 0
  \/ th[t].pc = "d_entry" /\ block[th[t].dblock].index # Null
  \/ th[t].pc = "b_entry" /\ enabled
  \/ th[t].pc = "d_commit" /\ ~th[t].is_freed
WaitsForMutex(t) == th[t].pc \in {"pi_mutex", "dis_mutex"}
HoldsMutex(t) == \E p \in Parts : bmutex[p] = t

\* the lock or the buffer block that the thread's next step needs is
\* available (the guard of the action at its position)
CanMove(t) ==
  LET s == th[t]
      pd == GetPart(PageIndexId(IF s.dblock = 0 THEN 1 ELSE s.dblock))
      pi == GetPart(IndexId(s.index))
  IN CASE s.pc = "d_entry" -> block[s.dblock].index = Null \/ RdFree(pd)
       [] s.pc = "d_wrf" -> WrFree(pd)
       [] s.pc = "d_commit" ->
            /\ IF s.is_freed THEN latch[pd].w = t ELSE WrFree(pd)
            /\ bmutex[pd] = 0
       [] s.pc = "pi_check" ->
            ~(parts[pi].spare = Null /\ enabled) \/ buf_free # {}
       [] s.pc = "pi_mutex" -> bmutex[pi] = 0
       [] s.pc = "b_entry" -> ~enabled \/ RdFree(pi)
       [] s.pc \in {"b_commit", "uhr_commit"} -> WrFree(pi) /\ bmutex[pi] = 0
       [] s.pc \in {"g_lock", "mv_lock"} -> RdFree(pi)
       [] s.pc = "ins_upd" -> WrFree(pi)
       [] s.pc = "ins_commit" ->
            \/ Len(InsertTodo(s.b, s.crec, IndexId(s.index), s.lbf)) = 0
            \/ WrFree(pi) /\ bmutex[pi] = 0
       [] s.pc = "del_lock" -> WrFree(pi)
       [] s.pc = "del_commit" ->
            /\ latch[pi].w = t
            /\ \/ bmutex[pi] = 0
               \/ ~enabled
               \/ block[s.b].index # s.index
               \/ ~PartErase(parts[pi], s.fold, s.crec).found
       [] s.pc = "x_lock" -> WrFree(s.i)
       [] s.pc = "dis_mutex" -> bmutex[s.i] = 0
       [] s.pc \in {"idle", "abort"} -> FALSE
       [] OTHER -> TRUE

LockOrder ==
  \A t \in Threads :
    \* nothing is requested above a held blocks_mutex but the next one
    /\ HoldsMutex(t) => ~WaitsForDictSys(t) /\ ~WaitsForPartLatch(t)
    \* under a partition latch: the next partition latch in ascending
    \* order, or blocks_mutex; never dict_sys
    /\ HoldsPartLatch(t) =>
         /\ ~WaitsForDictSys(t)
         /\ WaitsForPartLatch(t) =>
              /\ th[t].pc = "x_lock"
              /\ \A p \in Parts : latch[p].w = t <=> p < th[t].i
    \* a page latch is taken under a partition latch only by the try-lock
    \* of the guess, which never waits
    /\ t \in dict_frozen => th[t].pc \in {"x_lock", "dis_body"}

\* C7 (P8): no deadlock.  The locks are taken in the order dict_sys freeze,
\* partition latches (ascending), blocks_mutex, the only page latch asked
\* for under a partition latch is a try-lock, and while no thread has
\* stopped on a failed assertion some running thread can always move.
C7_NoDeadlock ==
  /\ LockOrder
  /\ (\A t \in Threads : th[t].pc # "abort") /\ (\E t \in Threads : Running(t))
       => \E t \in Threads : CanMove(t)

\* disable() waits for a partition latch that a guess holds in shared mode
\* while the guess try-locks a page
C7_Witness ==
  \E t \in Threads, u \in Threads :
    /\ th[t].op = "disable" /\ th[t].pc = "x_lock" /\ t \in dict_frozen
    /\ ~WrFree(th[t].i)
    /\ th[u].pc = "g_search" /\ u \in latch[th[t].i].r


\* ---------------------------------------------------------------------
\* Soundness of a successful guess
\* ---------------------------------------------------------------------
\* the operation of thread t has run from its start with no other thread
\* active
RanAlone(t) == hist.run = t

\* the cursor of thread t is on a user record of its block whose fold under
\* the block's current parameters is the fold of the tuple, the page belongs
\* to the index of the query, and the tuple is on the expected side
GuessSound(t) ==
  LET s == th[t]
      b == s.b
  IN /\ b \in LeafBlocks
     /\ IsUserRec(b, s.crec)
     /\ DtupleFold(s.tuple, IndexId(s.index), s.cnbf)
          = RecFold(KeyOf(b, s.crec), PageIndexId(b),
                    StripLeft(block[b].curr_lbf))
     /\ PageIndexId(b) = IndexId(s.index)
     /\ ~CheckMismatch(s.tuple, KeyOf(b, s.crec), s.ge)

\* C3 (P1): every guess that ran undisturbed and returned true left the
\* cursor on a record whose fold under the block's current parameters (side
\* bit removed) equals the fold of the tuple, on a page of the query's
\* index, with the tuple on the expected side of the record; whatever
\* builds, drops, inserts, deletes and moves came before.
C3_GuessSound ==
  \A t \in Threads : GuessSucceeded(t) /\ RanAlone(t) => GuessSound(t)

\* a guess succeeded on a page that an insert, a delete or a move changed
\* after the page was hashed
GuessAfterChange ==
  \E t \in Threads :
    /\ GuessSucceeded(t) /\ RanAlone(t)
    /\ hist.prev[1] \in {"insert", "delete", "move"}
    /\ page[th[t].b] # InitPage[th[t].b]



\* ---------------------------------------------------------------------
\* Two drops in a row
\* ---------------------------------------------------------------------
\* what a drop may change: the nodes and the slab of the partitions, the
\* free blocks, block->index of the pages and the reference counts
AhiState ==
  <<parts, buf_free, [b \in LeafBlocks |-> block[b].index],
    [i \in Indexes |-> idx[i].ref_count]>>

\* thread t runs btr_search_drop_page_hash_index(b, false) and the operation
\* before it, with nothing in between, was the same call on the same block
SecondDrop(t) ==
  /\ th[t].op = "drop" /\ ~th[t].gc0
  /\ RanAlone(t)
  /\ hist.prev = <<"drop", th[t].b, FALSE>>

\* C8 (P6): a drop_page_hash_index(b, false) that directly follows a
\* completed drop_page_hash_index(b, false) changes nothing: no step of it
\* touches the nodes, the slab, block.index or ref_count, and it returns.
C8_DropIdempotent ==
  [][\A t \in Threads :
       SecondDrop(t) => AhiState' = AhiState /\ th'[t].pc # "abort"]_vars

\* the second drop has returned, and the first one had emptied a partition
\* that a build had filled (a slab page is kept as the spare)
C8_Witness ==
  \E t \in Threads :
    /\ SecondDrop(t) /\ th[t].pc = "done"
    /\ parts[GetPart(IndexId(1))].spare # Null
    /\ Linked(parts[GetPart(IndexId(1))]) = {}
    /\ block[th[t].b].index = Null



\* ---------------------------------------------------------------------
\* Coverage of a hashed page
\* ---------------------------------------------------------------------
\* the fold of a record of page b under the block's current parameters
FoldOn(b, rec) ==
  RecFold(KeyOf(b, rec), PageIndexId(b), StripLeft(block[b].curr_lbf))

UserRecs(b) == {RecPtrs(b)[k] : k \in 1..Len(page[b])}

\* rec is the record that stands for its run of equal folds: the first one
\* of the run with LEFT_SIDE, the last one without
RunRepresentative(b, rec) ==
  LET nb == IF IsLeftSide(block[b].curr_lbf) THEN PageRecPrev(b, rec)
            ELSE PageRecNext(b, rec)
  IN IsUserRec(b, nb) => FoldOn(b, nb) # FoldOn(b, rec)

\* the nodes with this fold that are reachable from cell fold mod M
NodesOfFold(p, fold) ==
  {a \in {Chain(p, CalcHash(fold))[k] : k \in 1..Len(Chain(p, CalcHash(fold)))} :
     p.node[a].fold = fold}

\* every run-representative of page b has its node (fold, rec)
Covered(b) ==
  \A rec \in UserRecs(b) :
    RunRepresentative(b, rec) =>
      \E a \in NodesOfFold(parts[GetPart(PageIndexId(b))], FoldOn(b, rec)) :
        parts[GetPart(PageIndexId(b))].node[a].rec = rec

\* every record of page b finds, under its fold, a node that points to a
\* record of the page with that fold; without LEFT_SIDE to the last of the run
CoveredByPage(b) ==
  \A rec \in UserRecs(b) :
    \E a \in NodesOfFold(parts[GetPart(PageIndexId(b))], FoldOn(b, rec)) :
      LET r == parts[GetPart(PageIndexId(b))].node[a].rec
      IN /\ IsUserRec(b, r)
         /\ FoldOn(b, r) = FoldOn(b, rec)
         /\ ~IsLeftSide(block[b].curr_lbf) => RunRepresentative(b, r)

\* no operation is between its start and its return
Quiescent == \A t \in Threads : th[t].pc \in {"idle", "done"}

\* btr_search_build_page_hash_index() of thread t ran alone, with the hash
\* index enabled and parameters the index allows, and has returned
BuildCompleted(t) ==
  /\ th[t].op = "build" /\ th[t].pc = "done"
  /\ RanAlone(t)
  /\ enabled /\ Sensible(th[t].lbf)

\* C9 as stated (P4): whenever a block is hashed and no operation is in
\* progress, every run-representative of the page under the block's current
\* parameters and side has its node (fold, rec) in the cell of its fold.
C9_PerBlockCoverage ==
  Quiescent => \A b \in LeafBlocks : block[b].index # Null => Covered(b)

\* What a build does establish: when a build of a page has run undisturbed
\* to its end, the block is hashed under the build's index and parameters
\* and every user record of the page finds, in the cell of its fold, a node
\* with that fold that points to a record of the same page with the same
\* fold (the last record of the run when the parameters are without
\* LEFT_SIDE).
CoverageAfterBuild ==
  \A t \in Threads :
    BuildCompleted(t) =>
      /\ block[th[t].b].index = th[t].index
      /\ block[th[t].b].curr_lbf = th[t].lbf
      /\ CoveredByPage(th[t].b)

\* a build has covered its page by taking over the node of a fold that a
\* record of another hashed page has too: that page is no longer covered
CoverageTakenOver ==
  \E t \in Threads, b \in LeafBlocks :
    /\ BuildCompleted(t) /\ b # th[t].b
    /\ block[b].index # Null
    /\ \E rec \in UserRecs(b) :
         /\ RunRepresentative(b, rec)
         /\ \E a \in NodesOfFold(parts[GetPart(PageIndexId(b))], FoldOn(b, rec)) :
              OnPage(parts[GetPart(PageIndexId(b))].node[a].rec, Frame(th[t].b))



\* ---------------------------------------------------------------------
\* Chains and cells
\* ---------------------------------------------------------------------
\* every node of partition p (every slot its slab pages have handed out) is
\* linked, in the chain of the cell of its fold, and nowhere else
ChainsSound(p) ==
  /\ \A c \in 0..(NCells - 1) : \A k \in 1..Len(Chain(p, c)) :
       /\ p.node[Chain(p, c)[k]].fold >= 0
       /\ CalcHash(p.node[Chain(p, c)[k]].fold) = c
  /\ \A c, d \in 0..(NCells - 1) :
       \A k \in 1..Len(Chain(p, c)), j \in 1..Len(Chain(p, d)) :
         Chain(p, c)[k] = Chain(p, d)[j] => c = d /\ k = j
  /\ \A b \in ListedBlocks(p) : UsedSlots(p, b) \subseteq Linked(p)

\* the records the nodes of partition pn point to are records of pages
\* whose index id selects partition pn
InIndexPartition(pn) ==
  \A a \in Linked(parts[pn]) :
    /\ BlockFromAhi(parts[pn].node[a].rec) \in LeafBlocks
    /\ GetPart(PageIndexId(BlockFromAhi(parts[pn].node[a].rec))) = pn

NodesWithFold(p, fold) == {a \in Linked(p) : p.node[a].fold = fold}

\* insert(fold, rec) into p, where a node carries the fold already, leaves
\* the cells, the links, the folds, the slab pages, their free_offset and
\* the spare as they were and makes that node point to rec
ReplacesOnly(p, fold, rec) ==
  LET q == PartInsert(p, fold, rec)
  IN /\ q.cells = p.cells /\ q.blocks = p.blocks /\ q.spare = p.spare
     /\ q.free_offset = p.free_offset
     /\ Linked(q) = Linked(p)
     /\ \A a \in SlotAddrs :
          /\ q.node[a].fold = p.node[a].fold
          /\ q.node[a].next = p.node[a].next
          /\ q.node[a].rec = IF a \in NodesWithFold(p, fold) THEN rec
                             ELSE p.node[a].rec

\* C12: partition::insert(fold, rec) on a partition that has a node with
\* this fold only overwrites the rec of that node and allocates nothing
\* (evaluated for every partition between two operations); no partition
\* ever holds two nodes with the same fold.
C12_OneNodePerFold ==
  /\ \A pn \in Parts : \A fold \in PartFolds :
       Cardinality(NodesWithFold(parts[pn], fold)) <= 1
  /\ hist = NoHist =>
       \A fold \in PartFolds, rec \in PartRecs :
         NodesWithFold(parts[PartUnderTest], fold) # {} =>
           ReplacesOnly(parts[PartUnderTest], fold, rec)

\* an insert has just redirected the node of a fold that was present, while
\* the tail slab page was full and a spare was at hand
C12_Witness ==
  /\ hist.prev[1] = "insert" /\ hist.prev[3]
  /\ parts[PartUnderTest].spare # Null
  /\ ~HasRoom(parts[PartUnderTest].free_offset[LastBlock(parts[PartUnderTest])])
  /\ Cardinality(Linked(parts[PartUnderTest])) > 1



\* ---------------------------------------------------------------------
\* Allocation shortage
\* ---------------------------------------------------------------------
\* C13: partition::insert(fold, rec) that needs a new node while the tail
\* slab page has no room (or there is no slab page) and spare is null
\* returns leaving the chains, the nodes, the slab page list, every
\* free_offset and the spare as they were, with blocks_mutex released and
\* nobody stopped by an assertion.
C13_ShortageAbandons ==
  /\ \A fold \in PartFolds, rec \in PartRecs :
       Shortage(parts[PartUnderTest], fold) =>
         PartInsert(parts[PartUnderTest], fold, rec) = parts[PartUnderTest]
  /\ hist.prev[1] = "insert" /\ hist.prev[2] = 1 =>
       /\ bmutex[PartUnderTest] = 0
       /\ \A t \in Threads : th[t].pc # "abort"

\* an insert has just been abandoned: the only slab page is full of linked
\* nodes and there is no spare
C13_Witness ==
  /\ hist.prev[1] = "insert" /\ hist.prev[2] = 1
  /\ Len(parts[PartUnderTest].blocks) = 1
  /\ ~HasRoom(parts[PartUnderTest].free_offset[parts[PartUnderTest].blocks[1]])
  /\ parts[PartUnderTest].spare = Null
  /\ Linked(parts[PartUnderTest]) # {}



\* ---------------------------------------------------------------------
\* disable() against a guess that holds the partition latch
\* ---------------------------------------------------------------------
\* thread t is inside btr_search_guess_on_hash with the read latch of the
\* partition of its index
GuessHoldsLatch(t) ==
  /\ th[t].op = "guess" /\ th[t].pc = "g_search"
  /\ t \in latch[GetPart(IndexId(th[t].index))].r

\* disable() is past btr_search_x_lock_all()
DisablePastLock(u) == th[u].pc \in {"dis_body", "dis_mutex", "dis_clear"}

\* the cell array, the chains, the nodes and the slab pages of partition p
TableOf(p) == <<p.array, p.cells, p.node, p.blocks, p.free_offset>>

\* C14: while a guess holds the read latch of its partition with enabled
\* true, no step clears enabled, frees or changes the cell array, the nodes
\* or the slab pages of that partition, or changes block.index of a page,
\* and no disable() is past its latch acquisition; a guess that holds the
\* latch with enabled false fails in its next step without taking a page
\* latch.
C14_DisableWaitsForGuess ==
  [][\A t \in Threads :
       GuessHoldsLatch(t) =>
         /\ enabled =>
              /\ enabled'
              /\ TableOf(parts'[GetPart(IndexId(th[t].index))])
                   = TableOf(parts[GetPart(IndexId(th[t].index))])
              /\ \A b \in LeafBlocks : block'[b].index = block[b].index
              /\ \A u \in Threads : ~DisablePastLock(u) /\ ~DisablePastLock(u)'
         /\ ~enabled /\ th'[t] # th[t] =>
              /\ th'[t].pc = "done" /\ ~th'[t].ret
              /\ th'[t].flag = "HASH_FAIL"
              /\ block' = block
              /\ t \notin latch'[GetPart(IndexId(th[t].index))].r]_vars

\* a guess holds the read latch of its partition, with enabled true and a
\* hashed page, while disable() holds the lower latch and waits for this one
C14_Witness ==
  \E t \in Threads, u \in Threads :
    /\ GuessHoldsLatch(t) /\ enabled
    /\ \E b \in LeafBlocks : block[b].index # Null
    /\ th[u].op = "disable" /\ th[u].pc = "x_lock"
    /\ th[u].i = GetPart(IndexId(th[t].index))



\* ---------------------------------------------------------------------
\* Garbage collection of a freed index
\* ---------------------------------------------------------------------
\* the blocks hashed under index object i
BlocksOf(blk, i) == {b \in LeafBlocks : blk[b].index = i}

\* a freed index object is destroyed at most once, and only when no block
\* points to it
FreedOnce(i) ==
  /\ idx[i].lazy_freed <= 1
  /\ idx[i].lazy_freed = 1 => idx[i].freed /\ BlocksOf(block, i) = {}

MoveReturned(t) ==
  th[t].op = "move" /\ th[t].pc = "mv_free" /\ enabled

\* the ways through the function, as the thread took them: it found block
\* hashed and new_block not, and then either built the hash index of
\* new_block or found the index freed and dropped the hash index of block
MoveBuilt(t) == th[t].index # Null /\ th[t].lbf # NoParams
MoveDroppedFreed(t) == th[t].index # Null /\ th[t].lbf = NoParams

MoveDropsOld ==
  \E t \in Threads :
    /\ MoveReturned(t) /\ th[t].index = Null
    /\ block[th[t].b].index # Null /\ idx[block[th[t].b].index].ref_count = 1
    /\ hist.prev[1] = "build" /\ hist.prev[2] = th[t].b2
MoveDropsFreed == \E t \in Threads : MoveReturned(t) /\ MoveDroppedFreed(t)
MoveUnhashed ==
  \E t \in Threads :
    /\ MoveReturned(t) /\ th[t].index = Null
    /\ block[th[t].b].index = Null /\ block[th[t].b2].index = Null
    /\ hist.prev[1] = "drop" /\ hist.prev[2] = th[t].b2

\* ---------------------------------------------------------------------
\* btr_sea::enable()
\* ---------------------------------------------------------------------
\* thread t returns from enable() in this step
EnableReturns(t) ==
  th'[t].op = "enable" /\ th[t].pc # "done" /\ th'[t].pc = "done"

AllAllocated(ps) == \A p \in Parts : ps[p].array

\* C17 as stated: when enable() returns, enabled holds and every partition
\* has its cell array; and enable() on an enabled hash index changes
\* nothing.
C17_EnableEnables ==
  [][\A t \in Threads :
       EnableReturns(t) =>
         /\ enabled' /\ AllAllocated(parts')
         /\ enabled => UNCHANGED <<enabled, parts, buf_free, block, idx>>]_vars

\* C17, amended: when enable() returns, it has either returned at once
\* without a change, being called with resize = false while a change of the
\* buffer pool size is pending, or enabled holds and every partition has
\* its cell array; and enable() on an enabled hash index changes nothing.
C17_EnableUnlessResizing ==
  [][\A t \in Threads :
       EnableReturns(t) =>
         /\ IF th[t].pc = "idle"
            THEN /\ ~th'[t].resize /\ th'[t].changed
                 /\ UNCHANGED <<enabled, parts, latch, buf_free, block, idx>>
            ELSE enabled' /\ AllAllocated(parts')
         /\ enabled => UNCHANGED <<enabled, parts, buf_free, block, idx>>]_vars

\* enable() has switched the hash index on again after disable() had
\* switched it off and freed the tables
C17_Witness ==
  \E t \in Threads, u \in Threads :
    /\ th[u].op = "disable" /\ th[u].pc = "done"
    /\ th[t].op = "enable" /\ th[t].pc = "done"
    /\ ~(~th[t].resize /\ th[t].changed)
    /\ enabled /\ AllAllocated(parts)
    /\ \A p \in Parts : Linked(parts[p]) = {}

\* enable() has run on an enabled hash index that holds nodes
EnableOnEnabled ==
  \E t \in Threads :
    /\ th[t].op = "enable" /\ th[t].pc = "done" /\ th[t].resize
    /\ \E p \in Parts : Linked(parts[p]) # {}

\* ---------------------------------------------------------------------
\* btr_search_update_hash_on_delete(cursor)
\* ---------------------------------------------------------------------
\* the (fold, rec) pairs of the nodes of a partition
Entries(p) == {<<p.node[a].fold, p.node[a].rec>> : a \in Linked(p)}

\* the nodes in the cell of fold whose rec pointer is rec
NodesOfRec(p, fold, rec) ==
  {a \in {Chain(p, CalcHash(fold))[k] : k \in 1..Len(Chain(p, CalcHash(fold)))} :
     p.node[a].rec = rec}

\* thread t takes the step of update_hash_on_delete under the partition
\* latch, on a block that is hashed under the cursor's index
DeleteErases(t) ==
  /\ th[t].pc = "del_commit" /\ th'[t].pc # "del_commit"
  /\ enabled /\ block[th[t].b].index = th[t].index

\* C18: update_hash_on_delete(cursor) on a block hashed under the cursor's
\* index ends without error and removes from the partition exactly one
\* node, one of cell fold(rec) whose rec pointer is the record to be
\* deleted, when there is one; otherwise it leaves the tables unchanged.
\* When the record is the representative of its run and had its node
\* (fold, rec), no node of that fold remains, so that the search of
\* guess_on_hash for the fold finds nothing.
C18_DeleteErasesNode ==
  [][\A t \in Threads :
       DeleteErases(t) =>
         LET pn == GetPart(IndexId(th[t].index))
             p == parts[pn]
             q == parts'[pn]
             rec == th[t].crec
             fold == FoldOn(th[t].b, rec)
             hit == NodesOfRec(p, fold, rec)
         IN /\ th'[t].pc = "del_page"
            /\ \A o \in Parts \ {pn} : parts'[o] = parts[o]
            /\ IF hit = {}
               THEN q = p /\ buf_free' = buf_free
               ELSE /\ Cardinality(Linked(q)) = Cardinality(Linked(p)) - 1
                    /\ \E a \in hit :
                         Entries(q) = Entries(p) \ {<<p.node[a].fold, rec>>}
                    /\ NodesOfRec(q, fold, rec) = {}
                    /\ ChainsSound(q)
            /\ RunRepresentative(th[t].b, rec)
                 /\ (\E a \in hit : p.node[a].fold = fold) =>
                 /\ NodesWithFold(q, fold) = {}
                 /\ FirstIdx(Chain(q, CalcHash(fold)),
                             LAMBDA a : q.node[a].fold = fold) = 0]_vars

\* the page was built just before, so that every fold of its records had a
\* node; the node of the representative of a run of several records has
\* been erased: the other records of the run are on the page, and no node
\* has their fold
C18_Witness ==
  \E t \in Threads :
    /\ th[t].op = "delete" /\ th[t].pc = "del_page"
    /\ RanAlone(t) /\ hist.prev[1] = "build" /\ hist.prev[2] = th[t].b
    /\ enabled /\ block[th[t].b].index = th[t].index
    /\ RunRepresentative(th[t].b, th[t].crec)
    /\ \E r \in UserRecs(th[t].b) \ {th[t].crec} :
         FoldOn(th[t].b, r) = FoldOn(th[t].b, th[t].crec)
    /\ NodesWithFold(parts[GetPart(IndexId(th[t].index))],
                     FoldOn(th[t].b, th[t].crec)) = {}
    /\ Linked(parts[GetPart(IndexId(th[t].index))]) # {}

\* ---------------------------------------------------------------------
\* btr_search_info_update_hash(): the recommendation and the low match
\* ---------------------------------------------------------------------
\* the last step was a call of btr_search_info_update_hash
InfoUpdated == hist.prev[1] = "info_update_hash"

\* the search info before that call, and its cursor
InfoBefore == hist.prev[2]

\* the recommended position of the search info before the call, and the
\* positions of the cursor's low and up match, as (n_fields, n_bytes) pairs
InfoCmp ==
  PairCmp(NFieldsOf(StripLeft(InfoBefore.lbf)), NBytesOf(StripLeft(InfoBefore.lbf)))
LowCmp == PairCmp(InfoBefore.cursor.low_match, InfoBefore.cursor.low_bytes)
UpCmp == PairCmp(InfoBefore.cursor.up_match, InfoBefore.cursor.up_bytes)

\* n_hash_potential was not 0 and the search would not have succeeded on
\* the whole unique prefix (step 2 does not apply)
PastStepTwo ==
  /\ InfoBefore.n_hash_potential # 0
  /\ ~(NFieldsOf(InfoBefore.lbf) >= NUniqueInTree
         /\ InfoBefore.cursor.up_match >= NUniqueInTree)

\* the recommended position lies on the expected side of the low match
OnSideOfLow == IsLeftSide(InfoBefore.lbf) = (InfoCmp <= LowCmp)

\* the recommended position lies on the expected side of the up match
OnSideOfUp == IsLeftSide(InfoBefore.lbf) = (InfoCmp <= UpCmp)

\* the call kept the recommendation and incremented the potential
KeptAndBumped ==
  /\ idx[1].lbf = InfoBefore.lbf
  /\ idx[1].n_hash_potential = IncrementPotential(InfoBefore.n_hash_potential)
  /\ idx[1].n_hash_potential <= BTR_SEARCH_BUILD_LIMIT + 5
  /\ ~hist.prev[3]

\* C19 as stated: when n_hash_potential != 0, step 2 does not apply and
\* the recommended position lies on the expected side of the low match
\* (left_side holds exactly when recommended <= low_cmp), the call keeps
\* left_bytes_fields and increments n_hash_potential, saturating.
C19_KeepOnSideOfLow ==
  InfoUpdated /\ PastStepTwo /\ OnSideOfLow => KeptAndBumped

\* C19, amended: when n_hash_potential != 0 and step 2 does not apply, a
\* recommended position on the expected side of the low match makes the
\* call set a new recommendation, on the left side exactly when
\* low_cmp <= up_cmp, with n_hash_potential = 1, or 0 when low_cmp = up_cmp,
\* and reset the hash analysis; the call keeps left_bytes_fields and
\* increments n_hash_potential, saturating, when the recommended position
\* is not on the expected side of the low match and is on the expected
\* side of the up match.
C19_NewOnSideOfLow ==
  InfoUpdated /\ PastStepTwo =>
    /\ OnSideOfLow =>
         /\ idx[1].lbf = NewRecommendation(InfoBefore.cursor)
         /\ IsLeftSide(idx[1].lbf) = (LowCmp <= UpCmp)
         /\ StripLeft(idx[1].lbf) # NoParams
         /\ idx[1].n_hash_potential = (IF LowCmp = UpCmp THEN 0 ELSE 1)
         /\ hist.prev[3]
    /\ ~OnSideOfLow /\ OnSideOfUp => KeptAndBumped

\* a recommendation that had gathered potential was on the expected side of
\* the low match of the cursor, and the call has replaced it
C19_Witness ==
  /\ InfoUpdated /\ PastStepTwo /\ OnSideOfLow
  /\ InfoBefore.n_hash_potential > 1
  /\ idx[1].lbf # InfoBefore.lbf
  /\ idx[1].n_hash_potential = 1

\* the recommendation was kept, with the potential at its limit
InfoKeptAtLimit ==
  /\ InfoUpdated /\ PastStepTwo /\ ~OnSideOfLow /\ OnSideOfUp
  /\ InfoBefore.n_hash_potential = BTR_SEARCH_BUILD_LIMIT + 5
  /\ idx[1].n_hash_potential = BTR_SEARCH_BUILD_LIMIT + 5

\* the record about to be deleted has no node: nothing was erased
DeleteFoundNoNode ==
  \E t \in Threads :
    /\ th[t].op = "delete" /\ th[t].pc = "del_page"
    /\ enabled /\ block[th[t].b].index = th[t].index
    /\ ~RunRepresentative(th[t].b, th[t].crec)
    /\ NodesWithFold(parts[GetPart(IndexId(th[t].index))],
                     FoldOn(th[t].b, th[t].crec)) # {}

\* ---------------------------------------------------------------------
\* btr_search_update_hash_on_insert(): the side of the successor
\* ---------------------------------------------------------------------
\* thread t takes the step of update_hash_on_insert that inserts the nodes,
\* not on the BTR_CUR_HASH path, with the hash index enabled and the block
\* hashed under the cursor's index
InsertCommits(t) ==
  /\ th[t].pc = "ins_commit" /\ th'[t].pc = "done"
  /\ enabled /\ block[th[t].b].index = th[t].index

\* the node to insert on the side of the successor: with the supremum as
\* successor (ins_fold, ins_rec) exactly when LEFT_SIDE is clear; with a
\* successor of another fold (ins_fold, ins_rec) when LEFT_SIDE is clear
\* and (next_fold, next_rec) when it is set
SuccessorSide(b, rec, id, left_bytes_fields) ==
  LET n_bytes_fields == StripLeft(left_bytes_fields)
      ins_rec == PageRecNext(b, rec)
      next_rec == PageRecNext(b, ins_rec)
      ins == [fold |-> RecFold(KeyOf(b, ins_rec), id, n_bytes_fields),
              rec |-> ins_rec]
      next_fold == RecFold(KeyOf(b, next_rec), id, n_bytes_fields)
  IN IF next_rec = Supremum(b)
     THEN IF ~IsLeftSide(left_bytes_fields) THEN <<ins>> ELSE << >>
     ELSE IF ins.fold # next_fold
     THEN IF ~IsLeftSide(left_bytes_fields) THEN <<ins>>
          ELSE <<[fold |-> next_fold, rec |-> next_rec]>>
     ELSE << >>

\* C20: on the non-BTR_CUR_HASH path of update_hash_on_insert, for a block
\* hashed under the cursor's index, the partition after the call is the one
\* that results from the insert of the predecessor side followed by the
\* insert of the successor side: (ins_fold, inserted record) exactly when
\* LEFT_SIDE is clear if the successor is the supremum; if the successor is
\* a user record of another fold, exactly one node, (ins_fold, inserted
\* record) when LEFT_SIDE is clear and (next_fold, successor) when it is
\* set.
C20_SuccessorSide ==
  [][\A t \in Threads :
       InsertCommits(t) =>
         LET pn == GetPart(IndexId(th[t].index))
             lbf == block[th[t].b].curr_lbf
         IN parts'[pn] =
              InsertInOrder(parts[pn],
                InsertTodoPrev(th[t].b, th[t].crec, IndexId(th[t].index), lbf)
                  \o SuccessorSide(th[t].b, th[t].crec, IndexId(th[t].index), lbf))]_vars

\* what the call does on the side of the successor, whatever LEFT_SIDE is:
\* nothing when the successor is the supremum, and the insert of
\* (next_fold, successor) when the successor has another fold
SuccessorSideInCode ==
  [][\A t \in Threads :
       InsertCommits(t) =>
         LET pn == GetPart(IndexId(th[t].index))
             b == th[t].b
             lbf == block[b].curr_lbf
             ins_rec == PageRecNext(b, th[t].crec)
             next_rec == PageRecNext(b, ins_rec)
             ins_fold == FoldOn(b, ins_rec)
             prev == InsertInOrder(parts[pn],
                       InsertTodoPrev(b, th[t].crec, IndexId(th[t].index), lbf))
         IN parts'[pn] =
              IF next_rec = Supremum(b) \/ FoldOn(b, next_rec) = ins_fold
              THEN prev
              ELSE PartInsert(prev, FoldOn(b, next_rec), next_rec)]_vars

\* a record was inserted at the end of a page hashed without LEFT_SIDE,
\* with room in the slab, and no node points to it
InsertedLastNoNode ==
  \E t \in Threads :
    /\ th[t].op = "insert" /\ th[t].pc = "done" /\ th[t].flag = "BINARY"
    /\ enabled /\ block[th[t].b].index = th[t].index
    /\ ~IsLeftSide(block[th[t].b].curr_lbf)
    /\ PageRecNext(th[t].b, PageRecNext(th[t].b, th[t].crec)) = Supremum(th[t].b)
    /\ parts[GetPart(IndexId(th[t].index))].spare # Null
    /\ \A a \in Linked(parts[GetPart(IndexId(th[t].index))]) :
         parts[GetPart(IndexId(th[t].index))].node[a].rec
           # PageRecNext(th[t].b, th[t].crec)

\* ---------------------------------------------------------------------
\* btr_search_update_hash_on_insert(): the side of the predecessor
\* ---------------------------------------------------------------------
\* the node to insert on the side of the predecessor rec: behind the
\* infimum (ins_fold, ins_rec) exactly when LEFT_SIDE is set; behind a user
\* record of another fold (ins_fold, ins_rec) when LEFT_SIDE is set and
\* (fold, rec) when it is clear; nothing behind a record of the same fold
PredecessorSide(b, rec, id, left_bytes_fields) ==
  LET n_bytes_fields == StripLeft(left_bytes_fields)
      ins_rec == PageRecNext(b, rec)
      ins_fold == RecFold(KeyOf(b, ins_rec), id, n_bytes_fields)
  IN IF rec = Infimum(b)
     THEN IF IsLeftSide(left_bytes_fields)
          THEN <<[fold |-> ins_fold, rec |-> ins_rec]>> ELSE << >>
     ELSE IF RecFold(KeyOf(b, rec), id, n_bytes_fields) = ins_fold THEN << >>
     ELSE IF IsLeftSide(left_bytes_fields)
     THEN <<[fold |-> ins_fold, rec |-> ins_rec]>>
     ELSE <<[fold |-> RecFold(KeyOf(b, rec), id, n_bytes_fields), rec |-> rec]>>

\* C21: on the non-BTR_CUR_HASH path of update_hash_on_insert, for a block
\* hashed under the cursor's index, the first insert of the call is that of
\* the predecessor side: behind the infimum (ins_fold, inserted record)
\* exactly when LEFT_SIDE is set; behind a user record of another fold
\* exactly one node, (ins_fold, inserted record) when LEFT_SIDE is set and
\* (fold, predecessor) when it is clear; behind a record of the same fold
\* nothing. The partition after the call results from it and from the
\* insert of the successor side.
C21_PredecessorSide ==
  [][\A t \in Threads :
       InsertCommits(t) =>
         LET pn == GetPart(IndexId(th[t].index))
             lbf == block[th[t].b].curr_lbf
         IN parts'[pn] =
              InsertInOrder(parts[pn],
                PredecessorSide(th[t].b, th[t].crec, IndexId(th[t].index), lbf)
                  \o InsertTodoNext(th[t].b, th[t].crec, IndexId(th[t].index), lbf))]_vars

\* a record was inserted at the start of a page hashed with LEFT_SIDE,
\* before a record of the same fold: the node of the fold points to it
C21_Witness ==
  \E t \in Threads :
    /\ th[t].op = "insert" /\ th[t].pc = "done" /\ th[t].flag = "BINARY"
    /\ enabled /\ block[th[t].b].index = th[t].index
    /\ IsLeftSide(block[th[t].b].curr_lbf)
    /\ th[t].crec = Infimum(th[t].b)
    /\ Len(page[th[t].b]) > 1
    /\ FoldOn(th[t].b, PageRecNext(th[t].b, PageRecNext(th[t].b, th[t].crec)))
         = FoldOn(th[t].b, PageRecNext(th[t].b, th[t].crec))
    /\ \E a \in NodesOfFold(parts[GetPart(IndexId(th[t].index))],
                            FoldOn(th[t].b, PageRecNext(th[t].b, th[t].crec))) :
         parts[GetPart(IndexId(th[t].index))].node[a].rec
           = PageRecNext(th[t].b, th[t].crec)

\* a record was inserted behind a record of another fold on a page hashed
\* without LEFT_SIDE, and the node of the predecessor's fold points to the
\* predecessor
InsertedBehindOtherFold ==
  \E t \in Threads :
    /\ th[t].op = "insert" /\ th[t].pc = "done" /\ th[t].flag = "BINARY"
    /\ RanAlone(t) /\ hist.prev[1] = "delete" /\ hist.prev[2] = th[t].b
    /\ enabled /\ block[th[t].b].index = th[t].index
    /\ ~IsLeftSide(block[th[t].b].curr_lbf)
    /\ th[t].crec # Infimum(th[t].b)
    /\ FoldOn(th[t].b, th[t].crec) # FoldOn(th[t].b, PageRecNext(th[t].b, th[t].crec))
    /\ \E a \in NodesOfFold(parts[GetPart(IndexId(th[t].index))],
                            FoldOn(th[t].b, th[t].crec)) :
         parts[GetPart(IndexId(th[t].index))].node[a].rec = th[t].crec

\* ---------------------------------------------------------------------
\* btr_search_build_page_hash_index(): the representative of a run
\* ---------------------------------------------------------------------
\* C22: when a build of a page has run undisturbed to its end, the node of
\* the fold of every run of consecutive records with equal fold points to
\* the representative of the run: its first record when LEFT_SIDE is set,
\* its last record when LEFT_SIDE is clear, also for a run that straddles
\* the boundary between two batches.
C22_BuildRepresentatives ==
  \A t \in Threads :
    BuildCompleted(t) /\ block[th[t].b].index = th[t].index => Covered(th[t].b)

\* what holds without LEFT_SIDE: the node of every run points to its last
\* record, in builds of several batches too
BuildRepresentativesRight ==
  \A t \in Threads :
    BuildCompleted(t) /\ block[th[t].b].index = th[t].index
      /\ ~IsLeftSide(th[t].lbf) => Covered(th[t].b)

\* a build without LEFT_SIDE has inserted two batches, and the last run of
\* the page began as the last entry of the first batch
BuildRightSeveralBatches ==
  \E t \in Threads :
    /\ BuildCompleted(t) /\ block[th[t].b].index = th[t].index
    /\ ~IsLeftSide(th[t].lbf)
    /\ Cardinality({FoldOn(th[t].b, r) : r \in UserRecs(th[t].b)}) = BuildBatch
    /\ \E r \in UserRecs(th[t].b) :
         /\ PageRecNext(th[t].b, r) = Supremum(th[t].b)
         /\ IsUserRec(th[t].b, PageRecPrev(th[t].b, r))
         /\ FoldOn(th[t].b, PageRecPrev(th[t].b, r)) = FoldOn(th[t].b, r)

\* ---------------------------------------------------------------------
\* The quick exits of btr_search_build_page_hash_index()
\* ---------------------------------------------------------------------
\* what a quick exit is said to leave alone: the partition tables, every
\* block's index and curr_left_bytes_fields, every index's ref_count
Hashing ==
  <<parts,
    [b \in LeafBlocks |-> <<block[b].index, block[b].curr_lbf>>],
    [i \in Indexes |-> idx[i].ref_count]>>

\* thread t takes a step of a build that must exit quickly: the adaptive
\* hash index is disabled, or the parameters are not sensible
QuickExitStep(t) ==
  /\ th'[t] # th[t]
  /\ th'[t].op = "build"
  /\ ~enabled \/ ~Sensible(th'[t].lbf)

\* thread t is inside the drop that the build calls for a block hashed under
\* another index or other parameters
InRebuildDrop(t) == th[t].dcont = "b_check"

\* C23 as stated: a build that finds the adaptive hash index disabled, or is
\* given parameters that are zero without the side bit or longer than
\* n_unique_in_tree, leaves the partition tables, block.index,
\* curr_left_bytes_fields and ref_count unchanged in every step, also when
\* the block is hashed under different parameters.
C23_QuickExitUnchanged ==
  [][\A t \in Threads : QuickExitStep(t) => Hashing' = Hashing]_vars

\* C23, amended: such a build inserts no node, hashes no block and takes no
\* reference; it changes nothing at all while the adaptive hash index is
\* disabled, and with parameters that are not sensible the only change is
\* the drop of the hash index of the block it was called for, which it
\* starts exactly when the block is hashed under another index or other
\* parameters.
C23_QuickExitDropsFirst ==
  [][\A t \in Threads :
       QuickExitStep(t) =>
         /\ ~InRebuildDrop(t) => Hashing' = Hashing
         /\ InRebuildDrop(t) =>
              /\ ~enabled => Hashing' = Hashing
              /\ \A p \in DOMAIN parts : Entries(parts'[p]) \subseteq Entries(parts[p])
              /\ \A b \in LeafBlocks :
                   /\ b # th[t].b =>
                        /\ block'[b].index = block[b].index
                        /\ block'[b].curr_lbf = block[b].curr_lbf
                   /\ block'[b].index \in {block[b].index, Null}
              /\ \A i \in Indexes : idx'[i].ref_count <= idx[i].ref_count
         /\ th[t].pc = "b_entry" /\ enabled =>
              (InRebuildDrop(t)' <=> Rebuild(block[th[t].b], th[t].index, th[t].lbf))
         /\ th'[t].pc = "done" /\ th[t].pc # "done" /\ enabled =>
              ~Rebuild(block[th[t].b], th[t].index, th[t].lbf)]_vars

\* a build with parameters that are not sensible, called alone for the block
\* that the build before it hashed, stands behind its drop at the sanity
\* checks: the block is no longer hashed and the reference is given back
C23_Witness ==
  \E t \in Threads :
    /\ RanAlone(t)
    /\ th[t].op = "build" /\ th[t].pc = "b_check"
    /\ enabled /\ ~Sensible(th[t].lbf)
    /\ hist.prev[1] = "build" /\ hist.prev[2] = th[t].b
    /\ \E p \in DOMAIN parts : parts[p].spare # Null
    /\ block[th[t].b].index = Null
    /\ idx[th[t].index].ref_count = 0

\* without a hashed block in the way the quick exit on parameters that are
\* not sensible is reached with the block unhashed as before
QuickExitOnUnhashed ==
  \E t \in Threads :
    /\ RanAlone(t)
    /\ th[t].op = "build" /\ th[t].pc = "done"
    /\ enabled /\ ~Sensible(th[t].lbf)
    /\ hist.prev[1] = "none"
    /\ block[th[t].b].index = Null

\* ---------------------------------------------------------------------
\* The checks of a batch commit under the exclusive partition latch
\* ---------------------------------------------------------------------
\* thread t commits a batch of its build in this step
CommitStep(t) == th[t].pc = "b_commit" /\ th'[t] # th[t]

\* the checks of the commit fail: the adaptive hash index was disabled, or
\* the block is hashed under other parameters
CommitFails(t) ==
  \/ ~enabled
  \/ /\ block[th[t].b].index # Null
     /\ block[th[t].b].curr_lbf # th[t].lbf

RefCounts == [i \in Indexes |-> idx[i].ref_count]

\* C24: a batch commit whose checks fail inserts nothing and leaves
\* block.index, curr_left_bytes_fields and ref_count alone; one whose checks
\* pass stamps the block and takes a reference exactly when block.index was
\* null; no other step increments a ref_count; and while the adaptive hash
\* index is disabled no step of any handler adds an entry to a partition.
C24_CommitRechecks ==
  [][/\ \A t \in Threads :
          CommitStep(t) =>
            LET b == th[t].b
                i == th[t].index
            IN /\ CommitFails(t) => Hashing' = Hashing
               /\ ~CommitFails(t) =>
                    /\ block'[b].index = i
                    /\ block'[b].curr_lbf = th[t].lbf
                    /\ RefCounts' =
                         [RefCounts EXCEPT ![i] =
                            IF block[b].index = Null THEN @ + 1 ELSE @]
     /\ \A i \in Indexes :
          idx'[i].ref_count > idx[i].ref_count =>
            \E t \in Threads :
              /\ CommitStep(t) /\ ~CommitFails(t)
              /\ th[t].index = i /\ block[th[t].b].index = Null
     /\ ~enabled =>
          \A p \in DOMAIN parts : Entries(parts'[p]) \subseteq Entries(parts[p])
    ]_vars

\* a build stands at its commit, the partition latch free, while the block
\* has meanwhile been hashed under other parameters by another build
C24_Witness ==
  \E t \in Threads, u \in Threads :
    /\ t # u
    /\ th[t].op = "build" /\ th[t].pc = "b_commit" /\ enabled
    /\ block[th[t].b].index # Null
    /\ block[th[t].b].curr_lbf # th[t].lbf
    /\ th[u].op = "build" /\ th[u].b = th[t].b
    /\ th[u].lbf = block[th[t].b].curr_lbf
    /\ WrFree(GetPart(IndexId(th[t].index)))

\* an insert and an update_hash_ref stand at their commit with something to
\* insert after disable() has emptied the tables
InsertAfterDisable ==
  \E t \in Threads :
    /\ ~enabled
    /\ th[t].op = "insert" /\ th[t].pc = "ins_commit"
    /\ Len(InsertTodo(th[t].b, th[t].crec, IndexId(th[t].index), th[t].lbf)) > 0

UpdateHashRefAfterDisable ==
  \E t \in Threads :
    /\ ~enabled
    /\ th[t].op = "update_hash_ref" /\ th[t].pc = "uhr_commit"
    /\ th[t].crec \notin {Infimum(th[t].b), Supremum(th[t].b)}

\* a commit of a later batch finds the block hashed under its own parameters
\* and takes no second reference
CommitOnHashedBlock ==
  \E t \in Threads :
    /\ th[t].op = "build" /\ th[t].pc = "b_commit" /\ enabled
    /\ block[th[t].b].index = th[t].index
    /\ block[th[t].b].curr_lbf = th[t].lbf
    /\ idx[th[t].index].ref_count = 1

\* ---------------------------------------------------------------------
\* The verification of btr_search_drop_page_hash_index() under the
\* exclusive partition latch
\* ---------------------------------------------------------------------
\* thread t takes a step of the drop at the exclusive partition latch
DropCommitStep(t) == th[t].pc = "d_commit" /\ th'[t] # th[t]

\* the drop of thread t finds under the exclusive latch the index it read
\* and the parameters it collected the fingerprints with
DropVerified(t) ==
  /\ block[th[t].dblock].index = th[t].dindex
  /\ ~DiffersIgnoringSide(block[th[t].dblock].curr_lbf, th[t].dnbf)

\* the drop of thread t is inside btr_search_drop_page_hash_index()
InDrop(t) == th[t].dblock # 0

\* C25: a drop removes nodes, decrements ref_count and clears block.index
\* only in a step that finds, under the exclusive latch, block.index equal
\* to the index it read and the parameters unchanged; finding block.index
\* null it returns and changes nothing; finding other parameters it changes
\* nothing and starts again; a decrement is by one, of a positive count, in
\* the step that clears block.index of a hashed block; no drop ever stops at
\* the assertion on block.index or on a ref_count of zero.
C25_DropVerifies ==
  /\ [](\A t \in Threads : ~(th[t].pc = "abort" /\ InDrop(t)))
  /\ [][\A t \in Threads :
          /\ InDrop(t) /\ th'[t] # th[t] /\ ~DropCommitStep(t) =>
               Hashing' = Hashing
          /\ DropCommitStep(t) =>
               LET b == th[t].dblock
               IN /\ ~DropVerified(t) => Hashing' = Hashing
                  /\ ~th[t].is_freed /\ block[b].index = Null =>
                       th'[t].pc = th[t].dcont
                  /\ block[b].index # Null /\ ~DropVerified(t) =>
                       th'[t].pc = "d_entry"
                  /\ RefCounts' # RefCounts =>
                       /\ idx[th[t].dindex].ref_count > 0
                       /\ RefCounts' =
                            [RefCounts EXCEPT ![th[t].dindex] = @ - 1]
                       /\ block[b].index = th[t].dindex
                       /\ block'[b].index = Null
                  /\ block'[b].index # block[b].index =>
                       RefCounts' # RefCounts
       ]_vars

\* two threads are dropping the hash index of the same block; one of them
\* has cleared block.index and given the reference back, the other stands
\* at the exclusive latch with the index it read before
C25_Witness ==
  \E t \in Threads, u \in Threads :
    /\ t # u /\ enabled
    /\ th[t].pc = "d_commit" /\ ~th[t].is_freed
    /\ th[t].dindex # Null
    /\ block[th[t].dblock].index = Null
    /\ th[u].b = th[t].dblock /\ th[u].op = "build"
    /\ th[u].pc \in {"b_check", "done"} /\ ~Sensible(th[u].lbf)
    /\ idx[th[t].dindex].ref_count = 1
    /\ \E b \in LeafBlocks : block[b].index = th[t].dindex

\* a drop stands at the exclusive latch while another thread has dropped
\* the hash index and built one with other parameters on the block
DropFindsOtherParams ==
  \E t \in Threads :
    /\ enabled
    /\ th[t].pc = "d_commit" /\ ~th[t].is_freed
    /\ block[th[t].dblock].index = th[t].dindex
    /\ DiffersIgnoringSide(block[th[t].dblock].curr_lbf, th[t].dnbf)

\* ---------------------------------------------------------------------
\* The guess on a block that is being evicted or hashed for a freed index
\* ---------------------------------------------------------------------
\* the block of the record of the first node with the fingerprint of thread
\* t's tuple, or 0 when the chain has no such node
GuessTarget(t) ==
  LET p == parts[GetPart(IndexId(th[t].index))]
      ch == Chain(p, CalcHash(th[t].fold))
      k == FirstIdx(ch, LAMBDA a : p.node[a].fold = th[t].fold)
  IN IF k = 0 THEN 0 ELSE BlockFromAhi(p.node[ch[k]].rec)

\* thread t's guess is at the section under the shared partition latch, has
\* found a node and gets the page latch of its block
GuessGetsLatch(t) ==
  /\ th[t].pc = "g_search" /\ th'[t] # th[t]
  /\ enabled /\ GuessTarget(t) # 0
  /\ PageLatchFree(GuessTarget(t), th[t].lmode)

\* the block is leaving the page hash, or it is hashed for another index
\* object than the queried one (of the same id)
RemovedOrOtherIndex(t) ==
  LET b == GuessTarget(t)
  IN \/ block[b].state # "UNFIXED"
     \/ /\ block[b].index \notin {Null, th[t].index}
        /\ IndexId(block[b].index) = IndexId(th[t].index)

\* C26: a guess that gets the page latch of a block in REMOVE_HASH, or of a
\* block hashed for another index object of the same id, fails in that
\* step: it returns false with BTR_CUR_HASH_FAIL, holds neither the
\* partition latch nor the page latch afterwards and has not buffer-fixed
\* the block; and a guess that has buffer-fixed a block, or has returned
\* true, has a block in the page hash that is not hashed for another index
\* object.
C26_GuessRejects ==
  /\ [][\A t \in Threads :
          GuessGetsLatch(t) /\ RemovedOrOtherIndex(t) =>
            /\ th'[t].pc = "done" /\ ~th'[t].ret
            /\ th'[t].flag = "HASH_FAIL"
            /\ ~HoldsPartLatch(t)'
            /\ block' = block
       ]_vars
  /\ [](\A t \in Threads :
          th[t].op = "guess" /\ (th[t].pc = "g_validate" \/ GuessSucceeded(t)) =>
            /\ block[th[t].b].state = "UNFIXED"
            /\ block[th[t].b].index \in {Null, th[t].index})

\* the index was dropped and created again while a page was hashed for it;
\* a guess for the new index, running alone, found the node of that page
\* and failed, holding nothing
C26_Witness ==
  \E t \in Threads :
    /\ GuessReturned(t) /\ ~th[t].ret /\ th[t].flag = "HASH_FAIL"
    /\ enabled /\ ops = MaxOps - 1
    /\ \A u \in Threads \ {t} : th[u].pc = "idle"
    /\ GuessTarget(t) # 0
    /\ block[GuessTarget(t)].state = "UNFIXED"
    /\ block[GuessTarget(t)].index \notin {Null, th[t].index}
    /\ idx[block[GuessTarget(t)].index].freed
    /\ HoldsNothing(t)

\* a guess stands under the shared partition latch with a node whose block
\* another thread is evicting
GuessOnRemovedBlock ==
  \E t \in Threads :
    /\ th[t].pc = "g_search" /\ enabled
    /\ GuessTarget(t) # 0
    /\ PageLatchFree(GuessTarget(t), th[t].lmode)
    /\ block[GuessTarget(t)].state = "REMOVE_HASH"

\* ---------------------------------------------------------------------
\* The new recommendation of btr_search_info_update_hash()
\* ---------------------------------------------------------------------
\* the shortest prefix that tells the tuple from its neighbours: one field
\* more than the smaller match count, or, the match counts being equal, the
\* matched fields and one byte more than the matched bytes of the neighbour
\* on the recommended side
ShortestPrefix(c, left) ==
  IF left
  THEN IF c.low_match < c.up_match THEN Lbf(left, 0, c.low_match + 1)
       ELSE Lbf(left, c.low_bytes + 1, c.low_match)
  ELSE IF c.low_match > c.up_match THEN Lbf(left, 0, c.up_match + 1)
       ELSE Lbf(left, c.up_bytes + 1, c.up_match)

\* the parameters cut to n_unique whole fields when they are longer
CappedAtNUnique(l) ==
  IF BtrSearchGetNFields(StripLeft(l)) > NUniqueInTree
  THEN Lbf(IsLeftSide(l), 0, NUniqueInTree) ELSE l

\* the call set n_hash_potential as for a new recommendation
PotentialReset ==
  /\ idx[1].n_hash_potential = (IF UpCmp # LowCmp THEN 1 ELSE 0)
  /\ hist.prev[3]

\* C27 as stated: when step 2 does not apply and the recommended position
\* is on the expected side neither of the low nor of the up match, the new
\* left_bytes_fields has LEFT_SIDE exactly when up_cmp >= low_cmp, its
\* prefix is the shortest distinguishing one cut to n_unique fields, and
\* n_hash_potential is 1 when up_cmp # low_cmp and 0 otherwise.
C27_ShortestCapped ==
  InfoUpdated /\ PastStepTwo /\ ~OnSideOfLow /\ ~OnSideOfUp =>
    /\ IsLeftSide(idx[1].lbf) = (UpCmp >= LowCmp)
    /\ idx[1].lbf =
         CappedAtNUnique(ShortestPrefix(InfoBefore.cursor, UpCmp >= LowCmp))
    /\ PotentialReset

\* C27, amended: whenever the call sets a new recommendation (step 2 does
\* not apply and the call does not keep the old one), LEFT_SIDE is set
\* exactly when up_cmp >= low_cmp; the prefix is n_unique whole fields as
\* soon as the match on the recommended side's far neighbour reaches
\* n_unique (up_match on the left side, low_match on the right side),
\* whatever the other match count is, and the shortest distinguishing prefix
\* otherwise; n_hash_potential is 1 when up_cmp # low_cmp and 0 otherwise.
C27_WholeUniqueOnFullMatch ==
  InfoUpdated /\ PastStepTwo /\ ~(~OnSideOfLow /\ OnSideOfUp) =>
    LET c == InfoBefore.cursor
        left == UpCmp >= LowCmp
        full == IF left THEN c.up_match >= NUniqueInTree
                ELSE c.low_match >= NUniqueInTree
    IN /\ IsLeftSide(idx[1].lbf) = left
       /\ idx[1].lbf = (IF full THEN Lbf(left, 0, NUniqueInTree)
                        ELSE ShortestPrefix(c, left))
       /\ BtrSearchGetNFields(StripLeft(idx[1].lbf)) <= NUniqueInTree
       /\ StripLeft(idx[1].lbf) # NoParams
       /\ PotentialReset

\* a new recommendation was set for a tuple that matches its upper neighbour
\* on all unique fields and its lower neighbour on none: n_unique fields,
\* although one field tells the tuple from the lower neighbour
C27_Witness ==
  /\ InfoUpdated /\ PastStepTwo /\ ~OnSideOfLow /\ ~OnSideOfUp
  /\ InfoBefore.cursor.up_match >= NUniqueInTree
  /\ InfoBefore.cursor.low_match + 1 < NUniqueInTree
  /\ idx[1].lbf = Lbf(TRUE, 0, NUniqueInTree)
  /\ idx[1].n_hash_potential = 1

\* a new recommendation of matched fields and one more byte, the match
\* counts being equal
NewRecommendationWithBytes ==
  /\ InfoUpdated /\ PastStepTwo /\ hist.prev[3]
  /\ InfoBefore.cursor.low_match = InfoBefore.cursor.up_match
  /\ NBytesOf(StripLeft(idx[1].lbf)) > 0
  /\ idx[1].n_hash_potential = 0

\* ---------------------------------------------------------------------
\* btr_search_info_update_hash() without hash potential
\* ---------------------------------------------------------------------
\* C28: a call that finds n_hash_potential = 0 leaves LEFT_SIDE | 1 (one
\* whole field, left side) as the recommendation and n_hash_potential = 1
\* and has reset the hash analysis, whatever the match counts of the cursor
\* and whatever the recommendation was.
C28_NoPotentialRestarts ==
  InfoUpdated /\ InfoBefore.n_hash_potential = 0 =>
    /\ idx[1].lbf = Lbf(TRUE, 0, 1)
    /\ idx[1].n_hash_potential = 1
    /\ hist.prev[3]

\* the call found n_hash_potential = 0 with another recommendation than
\* LEFT_SIDE | 1 and a cursor that matches its upper neighbour on all unique
\* fields, and has replaced the recommendation
C28_Witness ==
  /\ InfoUpdated /\ InfoBefore.n_hash_potential = 0
  /\ InfoBefore.lbf # Lbf(TRUE, 0, 1)
  /\ InfoBefore.cursor.up_match >= NUniqueInTree
  /\ InfoBefore.cursor.low_match < InfoBefore.cursor.up_match
  /\ idx[1].lbf = Lbf(TRUE, 0, 1)
  /\ idx[1].n_hash_potential = 1

\* the same with a cursor whose neighbours match equally, for which a new
\* recommendation would have had bytes and no potential
NoPotentialEqualMatches ==
  /\ InfoUpdated /\ InfoBefore.n_hash_potential = 0
  /\ LowCmp = UpCmp
  /\ idx[1].n_hash_potential = 1

\* =====================================================================
\* n_hash_potential under concurrent searches of one index: the searches
\* hold no latch that covers the search info; each call reads the counter
\* once into a local and stores later what it computed from the local
\* (btr_search_info_update_hash: the read at the top, the store at
\* increment_potential or with the new recommendation; the successful
\* btr_search_guess_on_hash: read, test and store at its end)
\* =====================================================================
\* calls in one behaviour
MaxPotOps == 4

\* spec-modelled: the counter is an 8-bit field whose loads and stores are
\* single relaxed atomic accesses; a store keeps the low 8 bits
TwoTo8 == 256
StorePotential(ix, i, v) == [ix EXCEPT ![i].n_hash_potential = v % TwoTo8]

\* The counter where the behaviours start: 0 as in a new index, and values
\* next to the limit, which searches that keep the recommendation
\* LEFT_SIDE | 1 reach one by one.
PotStart ==
  {0} \cup ((BTR_SEARCH_BUILD_LIMIT + 3)..(BTR_SEARCH_BUILD_LIMIT + 5))

InitPot ==
  /\ InitRest
  /\ parts = Alloc([p \in Parts |-> EmptyPart])
  /\ buf_free = SlabBlocks
  /\ block = [b \in LeafBlocks |-> InitBlock]
  /\ \E n \in PotStart :
       idx = [i \in Indexes |-> [InitInfo EXCEPT !.n_hash_potential = n]]
  /\ hist = NoHist
  /\ ops = MaxPotOps

\* auto n_hash_potential= info.n_hash_potential
PotInfoRead(t) ==
  /\ CanStart(t)
  /\ Set(t, [Idle EXCEPT !.pc = "iu_rest", !.op = "info_update_hash",
                         !.index = 1,
                         !.n_hash_potential = idx[1].n_hash_potential])
  /\ ops' = ops - 1
  /\ UNCHANGED <<enabled, parts, latch, bmutex, buf_free, block, page, idx,
                 cur_index, dict_frozen, hist>>

\* the rest of btr_search_info_update_hash(): the recommendation is read
\* now, the counter is the local; increment_potential stores only below
\* the limit, a new recommendation stores always
PotInfoRest(t) ==
  LET s == th[t]
  IN /\ s.pc = "iu_rest"
     /\ \E c \in Cursors :
          LET r == BtrSearchInfoUpdateHash(
                     [lbf |-> idx[1].lbf,
                      n_hash_potential |-> s.n_hash_potential], c)
          IN idx' =
               IF r.reset \/ r.n_hash_potential # s.n_hash_potential
               THEN StorePotential([idx EXCEPT ![1].lbf = r.lbf], 1,
                                   r.n_hash_potential)
               ELSE idx
     /\ Set(t, Idle)
     /\ UNCHANGED <<enabled, parts, latch, bmutex, buf_free, block, page,
                    cur_index, dict_frozen, ops, hist>>

\* the end of a successful btr_search_guess_on_hash(): the read
PotGuessRead(t) ==
  /\ CanStart(t)
  /\ Set(t, [Idle EXCEPT !.pc = "g_bump", !.op = "guess", !.index = 1,
                         !.n_hash_potential = idx[1].n_hash_potential])
  /\ ops' = ops - 1
  /\ UNCHANGED <<enabled, parts, latch, bmutex, buf_free, block, page, idx,
                 cur_index, dict_frozen, hist>>

\* the test and the store
PotGuessBump(t) ==
  LET s == th[t]
  IN /\ s.pc = "g_bump"
     /\ idx' = IF IncrementPotential(s.n_hash_potential) # s.n_hash_potential
               THEN StorePotential(idx, 1, IncrementPotential(s.n_hash_potential))
               ELSE idx
     /\ Set(t, Idle)
     /\ UNCHANGED <<enabled, parts, latch, bmutex, buf_free, block, page,
                    cur_index, dict_frozen, ops, hist>>

NextPot ==
  \E t \in Threads :
    \/ PotInfoRead(t) \/ PotInfoRest(t) \/ PotGuessRead(t) \/ PotGuessBump(t)

SpecPot == InitPot /\ [][NextPot]_vars

\* C29: in every state n_hash_potential of the index, and every local copy
\* of it that a running call holds, lies within 0..BTR_SEARCH_BUILD_LIMIT+5,
\* whatever the interleaving of the reads and stores of concurrent calls.
C29_PotentialBounded ==
  /\ idx[1].n_hash_potential \in 0..(BTR_SEARCH_BUILD_LIMIT + 5)
  /\ \A t \in Threads :
       th[t].n_hash_potential \in 0..(BTR_SEARCH_BUILD_LIMIT + 5)

\* a guess read the counter one below the limit and has not yet stored;
\* meanwhile a search stored the limit and the next search has read it: the
\* guess will store the limit once more from its stale local copy
C29_Witness ==
  \E t \in Threads, u \in Threads :
    /\ t # u
    /\ th[t].pc = "iu_rest" /\ th[u].pc = "g_bump"
    /\ th[t].n_hash_potential = BTR_SEARCH_BUILD_LIMIT + 5
    /\ th[u].n_hash_potential = BTR_SEARCH_BUILD_LIMIT + 4
    /\ idx[1].n_hash_potential = BTR_SEARCH_BUILD_LIMIT + 5
    /\ ops < MaxPotOps - 2

\* a call holds a local copy at the limit while another call has set a new
\* recommendation and the counter is back at 0 or 1
StaleLimitAfterReset ==
  \E t \in Threads :
    /\ th[t].pc \in {"iu_rest", "g_bump"}
    /\ th[t].n_hash_potential = BTR_SEARCH_BUILD_LIMIT + 5
    /\ idx[1].n_hash_potential <= 1
    /\ idx[1].lbf # Lbf(TRUE, 0, 1)

\* =====================================================================
\* btr_search_update_block_hash_info(info, block) on its own: the searches
\* that end on one page, one after the other, each finding the search info
\* that the searches of the index left
\* =====================================================================
\* calls in one behaviour
MaxHelpOps == 4

BTR_SEARCH_PAGE_BUILD_LIMIT == 16

\* uint16_t n_hash_helps
TwoTo16 == 65536

\* page_get_n_recs(block->page.frame) of the pages searched: an empty page,
\* a page of one record, and a page of more than two times
\* BTR_SEARCH_PAGE_BUILD_LIMIT records
NRecsSet == {0, 1, 2 * BTR_SEARCH_PAGE_BUILD_LIMIT + 1}

\* n_hash_potential as the searches found it
PotentialSet ==
  {0, 1, BTR_SEARCH_BUILD_LIMIT - 1, BTR_SEARCH_BUILD_LIMIT,
   BTR_SEARCH_BUILD_LIMIT + 5}

\* a variant of BtrSearchUpdateBlockHashInfo that stores the incremented
\* counter also when the increment wrapped
BtrSearchUpdateBlockHashInfoWrap(info, blk, n_recs) ==
  LET n_hash_helps == blk.n_hash_helps
      n_hash_potential == info.n_hash_potential
      info_left_bytes_fields == info.lbf
      index == blk.index
      curr_left_bytes_fields == blk.curr_lbf
      stale == index = Null \/ info_left_bytes_fields # curr_left_bytes_fields
      build ==
        /\ n_hash_potential >= BTR_SEARCH_BUILD_LIMIT
        /\ \/ n_hash_helps \div 2 > n_recs
           \/ /\ n_hash_helps >= n_recs \div BTR_SEARCH_PAGE_BUILD_LIMIT
              /\ stale
      incremented == (n_hash_helps + 1) % TwoTo16
  IN IF /\ n_hash_helps # 0
        /\ n_hash_potential # 0
        /\ blk.next_lbf = info_left_bytes_fields
     THEN [build |-> build,
           last_hash_succ |-> ~stale,
           n_hash_helps |-> IF build THEN n_hash_helps
                            ELSE incremented,
           next_lbf |-> blk.next_lbf]
     ELSE [build |-> FALSE,
           last_hash_succ |-> FALSE,
           n_hash_helps |-> 1,
           next_lbf |-> info_left_bytes_fields]

\* btr_search_update_block_hash_info(info, block): the return value, and
\* info->last_hash_succ, block->n_hash_helps and
\* block->next_left_bytes_fields after the call
BtrSearchUpdateBlockHashInfo(info, blk, n_recs) ==
  LET n_hash_helps == blk.n_hash_helps
      n_hash_potential == info.n_hash_potential
      info_left_bytes_fields == info.lbf
      index == blk.index
      curr_left_bytes_fields == blk.curr_lbf
      stale == index = Null \/ info_left_bytes_fields # curr_left_bytes_fields
      build ==
        /\ n_hash_potential >= BTR_SEARCH_BUILD_LIMIT
        /\ \/ n_hash_helps \div 2 > n_recs
           \/ /\ n_hash_helps >= n_recs \div BTR_SEARCH_PAGE_BUILD_LIMIT
              /\ stale
      incremented == (n_hash_helps + 1) % TwoTo16
  IN IF /\ n_hash_helps # 0
        /\ n_hash_potential # 0
        /\ blk.next_lbf = info_left_bytes_fields
     THEN [build |-> build,
           last_hash_succ |-> ~stale,
           n_hash_helps |-> IF build THEN n_hash_helps
                            ELSE IF incremented # 0 THEN incremented
                            ELSE n_hash_helps,
           next_lbf |-> blk.next_lbf]
     ELSE [build |-> FALSE,
           last_hash_succ |-> FALSE,
           n_hash_helps |-> 1,
           next_lbf |-> info_left_bytes_fields]

\* The page is unhashed, or hashed (its reference counted) under some
\* parameters; it was never searched, or searches with little hash potential
\* have brought n_hash_helps next to the end of its 16 bits.
InitHelps ==
  /\ InitRest
  /\ parts = Alloc([p \in Parts |-> EmptyPart])
  /\ buf_free = SlabBlocks
  /\ \E hashed \in BOOLEAN, curr \in ParamSet, next \in ParamSet,
        many \in BOOLEAN :
       /\ block = [b \in LeafBlocks |->
                     IF b = 1
                     THEN [InitBlock EXCEPT
                             !.index = IF hashed THEN 1 ELSE Null,
                             !.curr_lbf = IF hashed THEN curr ELSE NoParams,
                             !.next_lbf = IF many THEN next ELSE NoParams,
                             !.n_hash_helps = IF many THEN TwoTo16 - 3 ELSE 0]
                     ELSE InitBlock]
       /\ idx = [i \in Indexes |->
                   IF i = 1 /\ hashed THEN [InitInfo EXCEPT !.ref_count = 1]
                   ELSE InitInfo]
  /\ hist = NoHist
  /\ ops = MaxHelpOps

\* one search of index 1 that ends on page 1: the history keeps what the
\* call found and what it returned
OpUpdateBlockHashInfo ==
  /\ ops > 0
  /\ \E lbf \in ParamSet, pot \in PotentialSet, n_recs \in NRecsSet :
       LET info == [lbf |-> lbf, n_hash_potential |-> pot]
           r == BtrSearchUpdateBlockHashInfo(info, block[1], n_recs)
       IN /\ idx' = [idx EXCEPT ![1].lbf = lbf,
                                ![1].n_hash_potential = pot,
                                ![1].last_hash_succ = r.last_hash_succ]
          /\ block' = [block EXCEPT ![1].n_hash_helps = r.n_hash_helps,
                                    ![1].next_lbf = r.next_lbf]
          /\ hist' = [prev |-> <<"update_block_hash_info",
                                 [n_hash_helps |-> block[1].n_hash_helps,
                                  next_lbf |-> block[1].next_lbf,
                                  lbf |-> lbf, n_hash_potential |-> pot,
                                  n_recs |-> n_recs],
                                 r.build>>,
                      run |-> 0]
  /\ ops' = ops - 1
  /\ UNCHANGED <<enabled, parts, latch, bmutex, buf_free, page, cur_index,
                 dict_frozen, th>>

NextHelps == OpUpdateBlockHashInfo

SpecHelps == InitHelps /\ [][NextHelps]_vars

HelpsUpdated == hist.prev[1] = "update_block_hash_info"

\* what that call found
HelpsBefore == hist.prev[2]

\* the recommendation is stable for the page
StableBranch ==
  /\ HelpsBefore.n_hash_helps # 0
  /\ HelpsBefore.n_hash_potential # 0
  /\ HelpsBefore.next_lbf = HelpsBefore.lbf

\* the block is unhashed or hashed under other parameters than info has
BlockStale == block[1].index = Null \/ block[1].curr_lbf # HelpsBefore.lbf

\* C30: the call returns true only from the stable branch with
\* n_hash_potential >= BTR_SEARCH_BUILD_LIMIT, and there exactly when
\* n_hash_helps / 2 > n_recs, or n_hash_helps >= n_recs / 16 and the block
\* is unhashed or hashed under other parameters; returning true it leaves
\* n_hash_helps alone; returning false from the stable branch it leaves
\* n_hash_helps one larger, or at 65535 if it was there, never at 0.
C30_BuildRecommended ==
  HelpsUpdated =>
    LET h == HelpsBefore
        ret == hist.prev[3]
    IN /\ ret => StableBranch /\ h.n_hash_potential >= BTR_SEARCH_BUILD_LIMIT
       /\ StableBranch /\ h.n_hash_potential >= BTR_SEARCH_BUILD_LIMIT =>
            (ret <=> \/ h.n_hash_helps \div 2 > h.n_recs
                     \/ /\ h.n_hash_helps >= h.n_recs \div 16
                        /\ BlockStale)
       /\ ret => block[1].n_hash_helps = h.n_hash_helps
       /\ StableBranch /\ ~ret =>
            /\ block[1].n_hash_helps # 0
            /\ block[1].n_hash_helps =
                 (IF h.n_hash_helps < 65535 THEN h.n_hash_helps + 1 ELSE 65535)
            /\ block[1].next_lbf = h.next_lbf

\* the call recommended a build for an unhashed page of many records on
\* which few searches had ended: n_hash_helps is at least n_recs / 16 but
\* n_hash_helps / 2 is not above n_recs
C30_Witness ==
  /\ HelpsUpdated /\ hist.prev[3]
  /\ HelpsBefore.n_recs > BTR_SEARCH_PAGE_BUILD_LIMIT
  /\ HelpsBefore.n_hash_helps \div 2 <= HelpsBefore.n_recs
  /\ block[1].index = Null
  /\ block[1].n_hash_helps = HelpsBefore.n_hash_helps

\* the call found n_hash_helps at 65535 with a stable recommendation of
\* little potential, returned false and left it there
HelpsSaturated ==
  /\ HelpsUpdated /\ ~hist.prev[3] /\ StableBranch
  /\ HelpsBefore.n_hash_helps = TwoTo16 - 1
  /\ block[1].n_hash_helps = TwoTo16 - 1

\* on a page of many records one search is not enough: the call returned
\* false with the potential at the limit and the block unhashed
HelpsBelowPageLimit ==
  /\ HelpsUpdated /\ ~hist.prev[3] /\ StableBranch
  /\ HelpsBefore.n_hash_potential >= BTR_SEARCH_BUILD_LIMIT
  /\ block[1].index = Null
  /\ HelpsBefore.n_hash_helps < HelpsBefore.n_recs \div BTR_SEARCH_PAGE_BUILD_LIMIT

\* the call recommended a rebuild of a page hashed under the parameters of
\* info, because far more searches ended on it than it has records
HelpsRebuildSameParams ==
  /\ HelpsUpdated /\ hist.prev[3] /\ ~BlockStale
  /\ HelpsBefore.n_hash_helps \div 2 > HelpsBefore.n_recs

\* ---------------------------------------------------------------------
\* What a failing btr_search_guess_on_hash() leaves behind
\* ---------------------------------------------------------------------
\* the adaptive hash index fields of the blocks
AhiFields ==
  [b \in LeafBlocks |->
     <<block[b].index, block[b].curr_lbf, block[b].next_lbf,
       block[b].n_hash_helps>>]

\* the search info of the indexes
SearchInfo ==
  [i \in Indexes |->
     <<idx[i].lbf, idx[i].n_hash_potential, idx[i].last_hash_succ>>]

\* thread t takes a step inside btr_search_guess_on_hash() that is not the
\* step in which the call returns true
GuessStepNotSuccess(t) ==
  /\ th[t].op = "guess" /\ th[t].pc \notin {"done", "abort"}
  /\ th'[t] # th[t]
  /\ ~th'[t].ret

GuessRejectedEarly ==
  \E t \in Threads :
    /\ GuessReturned(t) /\ ~th[t].ret /\ th[t].flag = "none"
    /\ idx[th[t].index].last_hash_succ

\* ---------------------------------------------------------------------
\* The spare page and the insert that follows prepare_insert()
\* ---------------------------------------------------------------------
\* one of the inserts of the pairs of todo into p, made in this order, would
\* need a new slab page and find no spare
RECURSIVE ShortageInOrder(_, _)
ShortageInOrder(p, todo) ==
  IF Len(todo) = 0 THEN FALSE
  ELSE \/ Shortage(p, Head(todo).fold)
       \/ ShortageInOrder(PartInsert(p, Head(todo).fold, Head(todo).rec),
                          Tail(todo))

\* the pairs that thread t, which has run prepare_insert() and stands before
\* its section under the exclusive partition latch, is going to insert, in
\* the order of the inserts
PreparedInserts(t) ==
  LET s == th[t]
      b == s.b
  IN IF ~enabled THEN << >>
     ELSE IF s.pc = "b_commit"
     THEN IF block[b].index # Null /\ block[b].curr_lbf # s.lbf THEN << >>
          ELSE LET fr == BuildGather(b, s.rec, << >>, s.lbf).fr
               IN [k \in 1..Len(fr) |-> fr[Len(fr) + 1 - k]]
     ELSE IF s.pc = "uhr_commit"
     THEN IF \/ block[b].index = Null
             \/ block[b].curr_lbf # idx[s.index].lbf
             \/ s.crec \in {Infimum(b), Supremum(b)}
          THEN << >>
          ELSE <<[fold |-> RecFold(KeyOf(b, s.crec), IndexId(s.index),
                                   StripLeft(block[b].curr_lbf)),
                  rec |-> s.crec]>>
     ELSE IF s.pc = "ins_commit"
     THEN IF block[b].index = Null THEN << >>
          ELSE InsertTodo(b, s.crec, IndexId(s.index), s.lbf)
     ELSE << >>

\* thread t enters its section under the exclusive partition latch and one
\* of its inserts is abandoned for want of a spare
Starves(t) ==
  /\ th'[t] # th[t]
  /\ ShortageInOrder(parts[GetPart(IndexId(th[t].index))], PreparedInserts(t))

\* Builds and record inserts alone, by all threads, from the state after
\* startup
MaxSpareOps == 3

InitSpare == InitEmpty /\ hist = HistOff /\ ops = MaxSpareOps

StepSpare(t) ==
  \/ DropEntry(t) \/ DropCommit(t)
  \/ PiCheck(t) \/ PiMutex(t)
  \/ BuildEntry(t) \/ BuildCheck(t) \/ BuildCommit(t)
  \/ InsEntry(t) \/ InsCommit(t)

NextSpare ==
  \E t \in Threads : OpBuild(t) \/ OpInsert(t) \/ StepSpare(t) \/ Finish(t)

SpecSpare == InitSpare /\ [][NextSpare]_vars

\* buf_block_alloc() is called, and its block is held, by a thread that
\* holds no partition latch
AllocUnlatched ==
  \A t \in Threads :
    th[t].pc \in {"pi_check", "pi_mutex"} => ~HoldsPartLatch(t)

\* C32 as stated: after prepare_insert() the inserts of the thread that need
\* a new slab page find the spare, whatever other threads did to the
\* partition in between, and buf_block_alloc() is never called under a
\* partition latch.
C32_SpareGuaranteesInsert ==
  /\ [][\A t \in Threads : ~Starves(t)]_vars
  /\ []AllocUnlatched

\* every pair of todo has a node with its fold in p
AllInserted(p, todo) ==
  \A k \in 1..Len(todo) : NodesWithFold(p, todo[k].fold) # {}

\* C32, amended: prepare_insert() of an enabled partition returns with the
\* spare in place, and never calls buf_block_alloc() under a partition
\* latch; the inserts that follow under the exclusive partition latch all
\* succeed if the spare is still there when one of them needs a new slab
\* page, and one of them is abandoned if other threads have used the spare
\* up and filled the tail slab page in between.
C32_SpareAtReturnOnly ==
  /\ [][\A t \in Threads :
         /\ th[t].pc \in {"pi_check", "pi_mutex"} /\ th'[t] # th[t]
            /\ th'[t].pc \notin {"pi_check", "pi_mutex"} /\ enabled
            => parts'[GetPart(IndexId(th[t].index))].spare # Null
         /\ th[t].pc \in {"b_commit", "ins_commit"} /\ th'[t] # th[t]
            => LET p == GetPart(IndexId(th[t].index))
               IN AllInserted(parts'[p], PreparedInserts(t))
                    <=> ~ShortageInOrder(parts[p], PreparedInserts(t))
       ]_vars
  /\ []AllocUnlatched

\* a thread has run prepare_insert() and stands before its section under
\* the exclusive partition latch with inserts to make, the partition is
\* enabled, and the spare that was there is gone: the tail slab page is
\* full and another thread has put the spare into the list
C32_Witness ==
  \E t \in Threads :
    LET p == parts[GetPart(IndexId(th[t].index))]
    IN /\ th[t].pc \in {"b_commit", "uhr_commit", "ins_commit"}
       /\ ShortageInOrder(p, PreparedInserts(t))
       /\ Len(p.blocks) > 0

\* ---------------------------------------------------------------------
\* The slab page that an erase empties
\* ---------------------------------------------------------------------
\* the slab pages of the list are distinct, none of them is empty and none
\* is the spare
SlabTidy(p) ==
  /\ \A k, j \in 1..Len(p.blocks) : p.blocks[k] = p.blocks[j] => k = j
  /\ \A k \in 1..Len(p.blocks) :
       /\ p.free_offset[p.blocks[k]] > 0
       /\ p.blocks[k] # p.spare

\* the pages a partition holds are not among the free blocks of the buffer
\* pool
SlabNotFree(p) ==
  /\ \A k \in 1..Len(p.blocks) : p.blocks[k] \notin buf_free
  /\ p.spare \notin buf_free

\* C33: an erase that empties the tail slab page takes the page off the
\* list; the page becomes the spare if there was none, and otherwise it
\* goes back to the buffer pool, once, and the spare stays; any other erase
\* leaves the list, the spare and the buffer pool alone.  No page is in
\* the list and the spare at once, and no page of the list is empty.
C33_EmptiedPageReclaimed ==
  /\ [](\A pn \in Parts : SlabTidy(parts[pn]) /\ SlabNotFree(parts[pn]))
  /\ [][hist'.prev[1] = "erase" =>
         LET p == parts[PartUnderTest]
             q == parts'[PartUnderTest]
             last == LastBlock(p)
         IN IF hist'.prev[2] # Null /\ p.free_offset[last] = SizeofNode
            THEN /\ q.blocks = SubSeq(p.blocks, 1, Len(p.blocks) - 1)
                 /\ q.free_offset[last] = 0
                 /\ IF p.spare = Null
                    THEN q.spare = last /\ buf_free' = buf_free
                    ELSE /\ q.spare = p.spare
                         /\ last \notin buf_free
                         /\ buf_free' = buf_free \cup {last}
            ELSE /\ q.blocks = p.blocks /\ q.spare = p.spare
                 /\ buf_free' = buf_free]_vars

\* an erase has just unlinked the only node of the tail slab page while a
\* spare was at hand: the page is back in the buffer pool, the spare is the
\* one it was, and a full slab page is left in the list
C33_Witness ==
  /\ hist.prev[1] = "erase" /\ hist.prev[2] # Null
  /\ hist.prev[2] \in {Frame(b) : b \in buf_free}
  /\ parts[PartUnderTest].spare # Null
  /\ Len(parts[PartUnderTest].blocks) = 1

\* an erase has just turned the emptied tail slab page into the spare
EmptiedPageBecomesSpare ==
  /\ hist.prev[1] = "erase" /\ hist.prev[2] # Null
  /\ parts[PartUnderTest].spare # Null
  /\ hist.prev[2] = Frame(parts[PartUnderTest].spare)

\* ---------------------------------------------------------------------
\* ha_remove_all_nodes_to_page(part, fold, page)
\* ---------------------------------------------------------------------
\* the nodes of the chain of cell c
CellNodes(p, c) == {Chain(p, c)[k] : k \in 1..Len(Chain(p, c))}

\* the (fold, rec) pairs the nodes of cell c carry
CellEntries(p, c) == {<<p.node[a].fold, p.node[a].rec>> : a \in CellNodes(p, c)}

\* C34: ha_remove_all_nodes_to_page(fold, page), for a fold of every cell
\* and every page, comes to an end on every cell content, after one scan per node that points into the page and one
\* more; then no node of the cell of fold points into the page, the nodes
\* of that cell that point into other pages are all in the chain, at their
\* old slab address or at a new one, and the other cells carry what they
\* carried.
C34_RemoveAllByPage ==
  \A c \in 0..(NCells - 1), b \in LeafBlocks :
    LET p == parts[PartUnderTest]
        q == HaRemoveAllNodesToPage([p |-> p, freed |-> << >>], c, Frame(b)).p
        before == CellNodes(p, c)
        after == CellNodes(q, c)
        gone == {a \in before : OnPage(p.node[a].rec, Frame(b))}
    IN /\ CalcHash(c) = c
       /\ \A a \in after : ~OnPage(q.node[a].rec, Frame(b))
       /\ {<<q.node[a].fold, q.node[a].rec>> : a \in after} =
            {<<p.node[a].fold, p.node[a].rec>> : a \in before \ gone}
       /\ Cardinality(after) = Cardinality(before) - Cardinality(gone)
       /\ Cardinality(Linked(q)) = Cardinality(Linked(p)) - Cardinality(gone)
       /\ \A d \in 0..(NCells - 1) :
            d # c => CellEntries(q, d) = CellEntries(p, d)

\* a remove-all has just erased a node of a cell and moved a surviving node
\* of that cell, which points into another page, to the erased slot
C34_Witness ==
  /\ hist.prev[1] = "remove_all" /\ hist.prev[2] >= 1 /\ hist.prev[3]
  /\ Cardinality(Linked(parts[PartUnderTest])) > 1

\* a remove-all has just erased two nodes of one cell, scanning three times
RemoveAllErasesTwo ==
  /\ hist.prev[1] = "remove_all" /\ hist.prev[2] = 2
  /\ Linked(parts[PartUnderTest]) # {}

\* ---------------------------------------------------------------------
\* btr_search_update_hash_on_insert(), cursor positioned by the hash index
\* ---------------------------------------------------------------------
\* Builds, searches through the hash index and inserts behind their cursor
\* by the first thread, btr_sea::disable() by the last one, from the state
\* in which the pages are hashed
InitHashIns == InitHashed /\ hist = HistOff /\ ops = MaxOpsSeq

StepHashIns(t) ==
  \/ DropEntry(t) \/ DropCommit(t)
  \/ PiCheck(t) \/ PiMutex(t)
  \/ BuildEntry(t) \/ BuildCheck(t) \/ BuildCommit(t)
  \/ GuessEntry(t) \/ GuessLock(t) \/ GuessSearch(t) \/ GuessValidate(t)
  \/ InsEntry(t) \/ InsUpd(t) \/ InsCommit(t)
  \/ DisFreeze(t) \/ XLockAll(t) \/ DisBody(t) \/ DisMutex(t) \/ DisClear(t)

NextHashIns ==
  \/ OpBuild(1) \/ OpGuess(1) \/ OpInsertAfterGuess(1) \/ OpDisable(NThreads)
  \/ \E t \in Threads : StepHashIns(t) \/ Finish(t)

SpecHashIns == InitHashIns /\ [][NextHashIns]_vars

\* thread t takes the step of update_hash_on_insert under the exclusive
\* partition latch, on the path of a cursor positioned by the hash index
HashInsertStep(t) == th[t].pc = "ins_upd" /\ th'[t] # th[t]

\* the node the step redirects: the first node of the cell of the cursor's
\* fold whose rec is the cursor record, or Null
Redirected(t) ==
  LET p == parts[GetPart(IndexId(th[t].index))]
      ch == Chain(p, CalcHash(th[t].fold))
      k == FirstIdx(ch, LAMBDA a : p.node[a].rec = th[t].crec)
  IN IF k = 0 THEN Null ELSE ch[k]

\* the folds of the linked nodes, each with the number of nodes that carry it
NodesPerFold(p) ==
  [f \in 0..(FoldMod - 1) |-> Cardinality(NodesWithFold(p, f))]

\* C35: on the path of a cursor positioned by the hash index with the
\* parameters of the block, update_hash_on_insert changes nothing but the
\* rec of the node of the cursor record in the cell of the cursor's fold,
\* which then points to the inserted record; no node is added or removed
\* and every fold keeps its number of nodes.  With the adaptive hash index
\* disabled, or the block not hashed, under the partition latch, nothing
\* changes at all.
C35_HashInsertRedirects ==
  [][\A t \in Threads :
       HashInsertStep(t) =>
         LET pn == GetPart(IndexId(th[t].index))
             p == parts[pn]
             q == parts'[pn]
             n == Redirected(t)
         IN /\ th[t].flag = "HASH" /\ th[t].cnbf = th[t].lbf
            /\ buf_free' = buf_free /\ AhiFields' = AhiFields
            /\ \A o \in Parts \ {pn} : parts'[o] = parts[o]
            /\ IF ~enabled \/ block[th[t].b].index = Null \/ n = Null
               THEN q = p
               ELSE /\ q = [p EXCEPT !.node[n].rec = PageRecNext(th[t].b, th[t].crec)]
                    /\ Linked(q) = Linked(p)
                    /\ NodesPerFold(q) = NodesPerFold(p)]_vars

\* an insert behind a cursor that the hash index positioned has returned:
\* the node of the cursor's fold points to the inserted record
C35_Witness ==
  \E t \in Threads :
    LET s == th[t]
        p == parts[GetPart(IndexId(s.index))]
    IN /\ s.op = "insert" /\ s.pc = "done" /\ s.flag = "HASH"
       /\ enabled
       /\ block[s.b].index = s.index /\ block[s.b].curr_lbf = s.cnbf
       /\ \E a \in NodesWithFold(p, s.fold) :
            /\ p.node[a].rec = PageRecNext(s.b, s.crec)
            /\ p.node[a].rec # s.crec

\* an insert behind a cursor that the hash index positioned is about to take
\* the partition latch, and the adaptive hash index has been disabled since
\* the insert was entered
HashInsertAfterDisable ==
  \E t \in Threads :
    /\ th[t].op = "insert" /\ th[t].pc = "ins_upd"
    /\ ~enabled
    /\ block[th[t].b].index = Null

\* ---------------------------------------------------------------------
\* The slab and the chains hold the same nodes
\* ---------------------------------------------------------------------
\* the slots below free_offset of the slab pages of the list
AllocatedSlots(p) == UNION {UsedSlots(p, b) : b \in ListedBlocks(p)}

\* the chain of cell c ends in null before it has visited more nodes than
\* there are slots
EndsInNull(p, c) ==
  LET ch == Chain(p, c)
  IN /\ Len(ch) < Fuel
     /\ IF Len(ch) = 0 THEN p.cells[c] = Null
        ELSE p.node[ch[Len(ch)]].next = Null

\* the number of places in the chains at which node a is linked
TimesLinked(p, a) ==
  Cardinality({<<c, k>> \in (0..(NCells - 1)) \X (1..Cardinality(SlotAddrs)) :
                 k <= Len(Chain(p, c)) /\ Chain(p, c)[k] = a})

\* C36: in every partition the nodes linked in the chains are the slots
\* below free_offset of the slab pages of the list: every such slot is
\* linked at one place of one chain, no chain leads to another slot, to the
\* spare or to a page of the buffer pool, and every chain ends in null.
C36_SlabChainBijection ==
  \A pn \in Parts :
    LET p == parts[pn]
    IN /\ Linked(p) = AllocatedSlots(p)
       /\ \A a \in AllocatedSlots(p) : TimesLinked(p, a) = 1
       /\ \A a \in Linked(p) :
            /\ BlockFromAhi(a) # p.spare
            /\ BlockFromAhi(a) \notin buf_free
       /\ \A c \in 0..(NCells - 1) : EndsInNull(p, c)

\* an erase has just moved the top node into the slot of the erased node and
\* emptied the tail slab page, which is the spare now; the chains hold the
\* three nodes of the full page that is left
C36_Witness ==
  /\ hist.prev[1] = "erase" /\ hist.prev[3]
  /\ parts[PartUnderTest].spare # Null
  /\ Len(parts[PartUnderTest].blocks) = 1
  /\ Cardinality(Linked(parts[PartUnderTest])) = 3
  /\ \A b \in buf_free : parts[PartUnderTest].free_offset[b] = 0

\* ---------------------------------------------------------------------
\* Latch balance
\* ---------------------------------------------------------------------
\* the partition latches thread t holds exclusively and shared, and the
\* blocks_mutexes it holds
HeldExclusive(t) == {p \in Parts : latch[p].w = t}
HeldShared(t) == {p \in Parts : t \in latch[p].r}
HeldMutex(t) == {p \in Parts : bmutex[p] = t}

\* what a thread holds between two steps, by its position: the shared latch
\* of a guess that is looking at the node, the exclusive latch of a drop
\* for a freed index and of a delete that is about to erase, and the
\* latches and mutexes of disable() and enable() taken so far
HoldsByPosition(t) ==
  LET s == th[t]
      pi == GetPart(IndexId(s.index))
      pd == GetPart(PageIndexId(IF s.dblock = 0 THEN 1 ELSE s.dblock))
  IN /\ HeldShared(t) = IF s.pc = "g_search" THEN {pi} ELSE {}
     /\ HeldExclusive(t) =
          IF s.pc = "del_commit" THEN {pi}
          ELSE IF s.pc = "d_commit" /\ s.is_freed THEN {pd}
          ELSE IF s.pc = "x_lock" THEN {p \in Parts : p < s.i}
          ELSE IF s.pc \in {"dis_body", "en_body", "dis_mutex", "dis_clear"}
          THEN Parts
          ELSE {}
     /\ HeldMutex(t) =
          IF s.pc = "dis_mutex" THEN {p \in Parts : p < s.i}
          ELSE IF s.pc = "dis_clear" THEN Parts
          ELSE {}

\* a step of thread t takes and releases latches and mutexes for t alone
OwnLatchesOnly(t) ==
  \A p \in Parts :
    /\ latch'[p].w # latch[p].w =>
         \/ latch[p].w = 0 /\ latch'[p].w = t /\ latch[p].r = {}
         \/ latch[p].w = t /\ latch'[p].w = 0
    /\ latch'[p].r # latch[p].r =>
         \/ latch'[p].r = latch[p].r \cup {t} /\ latch[p].w = 0
         \/ t \in latch[p].r /\ latch'[p].r = latch[p].r \ {t}
    /\ bmutex'[p] # bmutex[p] =>
         \/ bmutex[p] = 0 /\ bmutex'[p] = t
         \/ bmutex[p] = t /\ bmutex'[p] = 0

\* C37: a thread that is not inside an operation, or whose operation has
\* returned, holds no partition latch and no blocks_mutex; inside an
\* operation it holds what the position in the code says, so that every
\* release is of a latch that is held; update_hash_on_delete gives the
\* exclusive latch up once, through partition::erase() whether the node is
\* found or not and by itself when it does not erase.
C37_LatchBalance ==
  /\ [](\A t \in Threads :
          /\ th[t].pc \in {"idle", "done"} =>
               HeldExclusive(t) = {} /\ HeldShared(t) = {} /\ HeldMutex(t) = {}
          /\ th[t].pc # "abort" => HoldsByPosition(t))
  /\ [][\A t \in Threads :
          /\ th'[t] # th[t] => OwnLatchesOnly(t)
          /\ th[t].pc = "del_commit" /\ th'[t].pc = "del_page" =>
               HeldExclusive(t) # {} /\ latch'[GetPart(IndexId(th[t].index))].w = 0
       ]_vars

\* a delete has returned from update_hash_on_delete, which took the
\* partition latch; another thread holds that latch now
C37_Witness ==
  \E t \in Threads, u \in Threads :
    /\ u # t
    /\ th[t].op = "delete" /\ th[t].pc \in {"del_page", "done"}
    /\ th[t].dblock = 0 /\ th[t].index # Null
    /\ block[th[t].b].index = th[t].index
    /\ enabled
    /\ HeldExclusive(t) = {}
    /\ \/ th[u].pc = "g_search" /\ HeldShared(u) = {GetPart(IndexId(th[t].index))}
       \/ th[u].pc = "del_commit" /\ HeldExclusive(u) = {GetPart(IndexId(th[t].index))}

\* ---------------------------------------------------------------------
\* No buffer pool page is kept while the adaptive hash index is disabled
\* ---------------------------------------------------------------------
\* the blocks that threads hold between buf_block_alloc() and the section
\* under blocks_mutex of prepare_insert()
AllocatedByThreads == {th[t].alloc : t \in Threads} \ {Null}

\* the slab pages and spares of the partitions
HeldByPartitions ==
  UNION {ListedBlocks(parts[p]) \cup ({parts[p].spare} \ {Null}) : p \in Parts}

\* every block for slab pages is in one place: free in the buffer pool, in
\* the hands of a thread inside prepare_insert(), or in one partition
BlocksAccounted ==
  /\ buf_free \cup AllocatedByThreads \cup HeldByPartitions = SlabBlocks
  /\ buf_free \cap AllocatedByThreads = {}
  /\ buf_free \cap HeldByPartitions = {}
  /\ AllocatedByThreads \cap HeldByPartitions = {}
  /\ \A t, u \in Threads :
       t # u /\ th[t].alloc # Null => th[t].alloc # th[u].alloc
  /\ \A p, q \in Parts :
       p # q => (ListedBlocks(parts[p]) \cup {parts[p].spare})
                  \cap (ListedBlocks(parts[q]) \cup ({parts[q].spare} \ {Null})) = {}

\* C38: once disable() has cleared the partitions, and until enable() sets
\* the flag, no partition has a spare or a slab page, whatever the threads
\* inside prepare_insert() do; the block of a prepare_insert() that finds
\* the index disabled, or a spare in place, under blocks_mutex goes back to
\* the buffer pool, and no block is lost.
C38_NoPageWhileDisabled ==
  /\ [](~enabled /\ ~DisableInProgress =>
          /\ HeldByPartitions = {}
          /\ buf_free \cup AllocatedByThreads = SlabBlocks)
  /\ []BlocksAccounted
  /\ [][\A t \in Threads :
          th[t].pc = "pi_mutex" /\ th'[t] # th[t] =>
            LET p == GetPart(IndexId(th[t].index))
            IN IF parts[p].spare = Null /\ enabled
               THEN parts'[p].spare = th[t].alloc /\ buf_free' = buf_free
               ELSE /\ parts' = parts
                    /\ th[t].alloc \notin buf_free
                    /\ buf_free' = buf_free \cup {th[t].alloc}
                    /\ th'[t].alloc = Null]_vars

\* disable() has returned, having cleared the partitions, while a thread
\* inside prepare_insert() holds the block it allocated before the index
\* was disabled
C38_Witness ==
  \E t \in Threads, u \in Threads :
    /\ th[u].op = "disable" /\ th[u].pc = "done" /\ th[u].ret /\ ~enabled
    /\ th[t].pc = "pi_mutex" /\ th[t].alloc # Null
    /\ HeldByPartitions = {}
    /\ buf_free = SlabBlocks \ {th[t].alloc}

\* ---------------------------------------------------------------------
\* btr_search_info_update_hash(cursor) in the width of its operands
\* ---------------------------------------------------------------------
\* The match counts and byte counts of the cursor and n_unique are 16-bit
\* unsigned, left_bytes_fields is a 32-bit unsigned word (kept as its halves
\* <<hi, lo>>), the comparison values are 32-bit int.  An int is kept as
\* <<high half read as signed, low half>>.  The subtraction up_cmp - low_cmp
\* can overflow int, which is undefined: the call then goes on with the
\* sign of the wrapped difference or with the sign of the true difference
\* (a compiler may turn cmp >= 0 into up_cmp >= low_cmp).  The result is
\* the set of the possible outcomes of the call: the recommendation and the
\* potential after it, and whether a new recommendation was computed from
\* the cursor, on which side, and from which branch.
MaxWideOps == 3

\* the 16-bit match counts at the ends of the range and around the sign
\* bit of int(match << 16 | bytes); the 16-bit byte counts at the ends of
\* the range and around the LEFT_SIDE bit of (bytes + 1) << 16
WideMatches == {0, 1, TwoTo15 - 1, TwoTo15, TwoTo16 - 1}
WideBytes == {0, 1, TwoTo15 - 2, TwoTo15 - 1, TwoTo16 - 1}

WideCursors ==
  [low_match : WideMatches, low_bytes : WideBytes,
   up_match : WideMatches, up_bytes : WideBytes]

WideUnique == {1, NUniqueInTree}

\* variant: the byte count itself, not its successor
FieldsAndBytesNoSuccessor(side, m, b) ==
  LET h == b % TwoTo16
  IN <<IF side /\ h < TwoTo15 THEN h + TwoTo15 ELSE h, m>>

\* (side << 31) | m | uint32_t(b + 1) << 16: the shift drops what does not
\* fit the upper half, and the or merges bit 15 of it with the side bit
FieldsAndBytes(side, m, b) ==
  LET h == (b + 1) % TwoTo16
  IN <<IF side /\ h < TwoTo15 THEN h + TwoTo15 ELSE h, m>>

BtrSearchInfoUpdateHashWide(info, c, n_unique) ==
  LET n_hash_potential == info.n_hash_potential
      left_bytes_fields == info.lbf
      \* int(x << 16 | y) for 16-bit x and y
      AsInt(x, y) == <<IF x >= TwoTo15 THEN x - TwoTo16 ELSE x, y>>
      Le(a, b) == a[1] < b[1] \/ (a[1] = b[1] /\ a[2] <= b[2])
      left_side == left_bytes_fields[1] >= TwoTo15
      info_cmp == AsInt(left_bytes_fields[2], left_bytes_fields[1] % TwoTo15)
      low_cmp == AsInt(c.low_match, c.low_bytes)
      up_cmp == AsInt(c.up_match, c.up_bytes)
      \* up_cmp - low_cmp as d_hi * 65536 + d_lo, 0 <= d_lo < 65536
      borrow == IF up_cmp[2] < low_cmp[2] THEN 1 ELSE 0
      d_lo == up_cmp[2] - low_cmp[2] + borrow * TwoTo16
      d_hi == up_cmp[1] - low_cmp[1] - borrow
      wrapped == ((d_hi + TwoTo16 + TwoTo15) % TwoTo16) - TwoTo15
      overflow == d_hi < -TwoTo15 \/ d_hi >= TwoTo15
      signs == {[ge |-> wrapped >= 0, ne |-> ~(wrapped = 0 /\ d_lo = 0)]}
               \cup (IF overflow THEN {[ge |-> d_hi >= 0, ne |-> TRUE]} ELSE {})
      \* (side << 31) | v, for a value v of at most 17 bits
      OrLow(side, v) == <<(IF side THEN TwoTo15 ELSE 0) + v \div TwoTo16,
                          v % TwoTo16>>
      recommend(ge) ==
        IF ge
        THEN IF c.up_match >= n_unique
             THEN [lbf |-> OrLow(TRUE, n_unique), branch |-> "n_unique"]
             ELSE IF c.low_match < c.up_match
             THEN [lbf |-> OrLow(TRUE, c.low_match + 1), branch |-> "fields"]
             ELSE [lbf |-> FieldsAndBytes(TRUE, c.low_match, c.low_bytes),
                   branch |-> "bytes"]
        ELSE IF c.low_match >= n_unique
             THEN [lbf |-> OrLow(FALSE, n_unique), branch |-> "n_unique"]
             ELSE IF c.low_match > c.up_match
             THEN [lbf |-> OrLow(FALSE, c.up_match + 1), branch |-> "fields"]
             ELSE [lbf |-> FieldsAndBytes(FALSE, c.up_match, c.up_bytes),
                   branch |-> "bytes"]
      increment_potential ==
        {[lbf |-> left_bytes_fields,
          n_hash_potential |-> IncrementPotential(n_hash_potential),
          written |-> FALSE, ge |-> FALSE, branch |-> "none"]}
      set_new_recommendation ==
        {[lbf |-> recommend(sg.ge).lbf,
          n_hash_potential |-> IF sg.ne THEN 1 ELSE 0,
          written |-> TRUE, ge |-> sg.ge, branch |-> recommend(sg.ge).branch] :
           sg \in signs}
  IN IF n_hash_potential = 0
     THEN {[lbf |-> Lbf(TRUE, 0, 1), n_hash_potential |-> 1,
            written |-> FALSE, ge |-> FALSE, branch |-> "none"]}
     ELSE IF left_bytes_fields[2] >= n_unique /\ c.up_match >= n_unique
     THEN increment_potential
     ELSE IF left_side = Le(info_cmp, low_cmp)
     THEN set_new_recommendation
     ELSE IF left_side = Le(info_cmp, up_cmp)
     THEN increment_potential
     ELSE set_new_recommendation

\* one search of index 1 with a cursor of the full width: the history keeps
\* the cursor, n_unique and what the call did
OpInfoUpdateHashWide ==
  /\ ops > 0
  /\ hist = NoHist
  /\ \E c \in WideCursors, n_unique \in WideUnique :
       \E r \in BtrSearchInfoUpdateHashWide(idx[1], c, n_unique) :
         /\ idx' = [idx EXCEPT ![1].lbf = r.lbf,
                               ![1].n_hash_potential = r.n_hash_potential]
         /\ hist' = [prev |-> <<"info_update_hash",
                                [cursor |-> c, n_unique |-> n_unique,
                                 ge |-> r.ge, branch |-> r.branch],
                                r.written>>,
                     run |-> 0]
  /\ ops' = ops - 1
  /\ UNCHANGED <<enabled, parts, latch, bmutex, buf_free, block, page,
                 cur_index, dict_frozen, th>>

InitWide == InitEmpty /\ hist = NoHist /\ ops = MaxWideOps

NextWide == OpInfoUpdateHashWide \/ HistClear

SpecWide == InitWide /\ [][NextWide]_vars

\* the call has just computed a recommendation from the cursor
WroteRecommendation ==
  hist.prev[1] = "info_update_hash" /\ hist.prev[3]

\* the recommendation is usable: it names a field or a byte, no more than
\* n_unique fields counting an incomplete one, its side bit is the side
\* the call chose, and the bytes it names are the bytes the call meant
Usable(lbf, n_unique, ge, branch, c) ==
  /\ StripLeft(lbf) # NoParams
  /\ BtrSearchGetNFields(StripLeft(lbf)) >= 1
  /\ BtrSearchGetNFields(StripLeft(lbf)) <= n_unique
  /\ IsLeftSide(lbf) = ge
  /\ branch = "bytes" =>
       NBytesOf(StripLeft(lbf)) = (IF ge THEN c.low_bytes ELSE c.up_bytes) + 1
  /\ branch # "bytes" => NBytesOf(StripLeft(lbf)) = 0

\* C39 as stated: for all 16-bit match counts and byte counts and every
\* n_unique >= 1, the recommendation that info_update_hash computes names
\* a field or a byte, at most n_unique fields, and its (bytes + 1) << 16
\* neither reaches the LEFT_SIDE bit nor wraps to no byte.
C39_RecommendationUsable ==
  WroteRecommendation =>
    Usable(idx[1].lbf, hist.prev[2].n_unique, hist.prev[2].ge,
           hist.prev[2].branch, hist.prev[2].cursor)

\* the values for which the arithmetic of the call is exact: match counts
\* below 2^15, which int(match << 16 | bytes) keeps non-negative, and byte
\* counts below 2^15 - 1, whose successor stays below the LEFT_SIDE bit
InRange(c) ==
  /\ c.low_match < TwoTo15 /\ c.up_match < TwoTo15
  /\ c.low_bytes < TwoTo15 - 1 /\ c.up_bytes < TwoTo15 - 1

\* C39, amended: for match counts below 2^15, byte counts below 2^15 - 1
\* and every n_unique >= 1, the recommendation that info_update_hash
\* computes names a field or a byte, at most n_unique fields, and its
\* (bytes + 1) << 16 neither reaches the LEFT_SIDE bit nor wraps to no
\* byte; the recommendation written when n_hash_potential is 0 is
\* LEFT_SIDE | 1.
C39_UsableInRange ==
  /\ WroteRecommendation /\ InRange(hist.prev[2].cursor) =>
       Usable(idx[1].lbf, hist.prev[2].n_unique, hist.prev[2].ge,
              hist.prev[2].branch, hist.prev[2].cursor)
  /\ hist.prev[1] = "info_update_hash" /\ ~hist.prev[3]
       /\ idx[1].n_hash_potential = 1 /\ ops = MaxWideOps - 1
       => idx[1].lbf = Lbf(TRUE, 0, 1)

\* the call has just recommended fields and bytes on the right side for a
\* cursor in range whose match counts are equal
C39_Witness ==
  /\ WroteRecommendation /\ InRange(hist.prev[2].cursor)
  /\ hist.prev[2].branch = "bytes" /\ ~hist.prev[2].ge
  /\ hist.prev[2].cursor.up_bytes = 1
  /\ idx[1].lbf = Lbf(FALSE, 2, hist.prev[2].cursor.up_match)

\* the call has just stored LEFT_SIDE alone: low_bytes + 1 wrapped to 0
RecommendationWrapsToNothing ==
  /\ WroteRecommendation
  /\ hist.prev[2].cursor.low_bytes = TwoTo16 - 1
  /\ idx[1].lbf = Lbf(TRUE, 0, 0)

\* =====================================================================
\* btr_cur_t::search_info_update() in its steps, with the searches that try
\* the hash index first: when the hash index of a page becomes usable
\* =====================================================================
MaxUsableOps == 3

\* n_hash_potential as btr_search_info_update_hash() leaves it: no
\* potential, some, and enough to build
UsablePotentials == {0, 1, BTR_SEARCH_BUILD_LIMIT}

\* the recommendations btr_search_info_update_hash() leaves
UsableParams == {HashedParams, OtherParams}

\* A search has positioned its cursor on page b by the tree and holds the
\* page latch: btr_search_info_update_hash() leaves some recommendation
\* and potential, which no latch protects.
OpSearchInfoUpdate(t) ==
  /\ CanStart(t)
  /\ enabled
  /\ \E b \in LeafBlocks, m \in LatchModes, lbf \in UsableParams,
        pot \in UsablePotentials :
       /\ CanLatch(b, m)
       /\ block' = LatchPage(block, b, t, m)
       /\ idx' = [idx EXCEPT ![cur_index].lbf = lbf,
                             ![cur_index].n_hash_potential = pot]
       /\ Start(t, [Idle EXCEPT !.pc = "ubh_load", !.op = "search_info_update",
                                !.b = b, !.index = cur_index, !.lmode = m])
  /\ UNCHANGED <<enabled, parts, latch, bmutex, buf_free, page, cur_index,
                 dict_frozen>>

\* a search tries the hash index with the search info as the searches
\* before it left it
OpGuessAsLeft(t) ==
  /\ CanStart(t)
  /\ \E tuple \in Keys, ge \in BOOLEAN, m \in LatchModes :
       Start(t, [Idle EXCEPT !.pc = "g_entry", !.op = "guess",
                             !.index = cur_index, !.tuple = tuple,
                             !.ge = ge, !.lmode = m])
  /\ UNCHANGED <<enabled, parts, latch, bmutex, buf_free, block, page, idx,
                 cur_index, dict_frozen>>

\* btr_search_update_block_hash_info(): the three loads at its start
UbhLoad(t) ==
  LET s == th[t]
  IN /\ s.pc = "ubh_load"
     /\ Set(t, [s EXCEPT !.pc = "ubh_store",
                         !.n_hash_helps = block[s.b].n_hash_helps,
                         !.n_hash_potential = idx[s.index].n_hash_potential,
                         !.lbf = idx[s.index].lbf])
     /\ UNCHANGED <<enabled, parts, latch, bmutex, buf_free, block, page, idx,
                    cur_index, dict_frozen, ops, hist>>

\* the call took the branch of a stable recommendation
UbhStable(s) ==
  /\ s.n_hash_helps # 0
  /\ s.n_hash_potential # 0
  /\ block[s.b].next_lbf = s.lbf

\* a variant of UbhStore that counts the search also on the first call
\* after a build: it takes the block for searched before
UbhStoreNoReset(t) ==
  LET s == th[t]
      b == s.b
      r == BtrSearchUpdateBlockHashInfo(
             [lbf |-> s.lbf, n_hash_potential |-> s.n_hash_potential],
             [block[b] EXCEPT !.n_hash_helps = IF s.n_hash_helps = 0 THEN 1
                                               ELSE s.n_hash_helps],
             Len(page[b]))
  IN /\ s.pc = "ubh_store"
     /\ idx' = [idx EXCEPT ![s.index].last_hash_succ = r.last_hash_succ]
     /\ block' = [block EXCEPT ![b].n_hash_helps = r.n_hash_helps,
                               ![b].next_lbf = r.next_lbf]
     /\ IF r.build
        THEN Set(t, [s EXCEPT !.pc = "b_entry", !.lbf = r.next_lbf,
                              !.bcont = "done"])
        ELSE Set(t, [s EXCEPT !.pc = "done"])
     /\ UNCHANGED <<enabled, parts, latch, bmutex, buf_free, page, cur_index,
                    dict_frozen, ops, hist>>

\* btr_search_update_block_hash_info() after its loads: what it stores, and
\* the build that search_info_update() starts with the block's
\* next_left_bytes_fields when the call returns true.  n_hash_helps is
\* stored from the value loaded, unless the call returns true or the
\* increment wrapped.
UbhStore(t) ==
  LET s == th[t]
      b == s.b
      r == BtrSearchUpdateBlockHashInfo(
             [lbf |-> s.lbf, n_hash_potential |-> s.n_hash_potential],
             [block[b] EXCEPT !.n_hash_helps = s.n_hash_helps],
             Len(page[b]))
      kept == UbhStable(s) /\ (r.build \/ r.n_hash_helps = s.n_hash_helps)
  IN /\ s.pc = "ubh_store"
     /\ idx' = [idx EXCEPT ![s.index].last_hash_succ = r.last_hash_succ]
     /\ block' = [block EXCEPT ![b].n_hash_helps = IF kept THEN @
                                                   ELSE r.n_hash_helps,
                               ![b].next_lbf = r.next_lbf]
     /\ IF r.build
        THEN Set(t, [s EXCEPT !.pc = "b_entry", !.lbf = r.next_lbf,
                              !.bcont = "done"])
        ELSE Set(t, [s EXCEPT !.pc = "done"])
     /\ UNCHANGED <<enabled, parts, latch, bmutex, buf_free, page, cur_index,
                    dict_frozen, ops, hist>>

\* the state in which the pages have been built and the searches on
\* HashedBlock have made the hash index usable
InitUsableHashed ==
  /\ InitRest
  /\ LET p0 == Alloc([p \in Parts |-> EmptyPart])
         r1 == SeqBuildFrom([p |-> p0[GetPart(IndexId(1))], free |-> SlabBlocks],
                            HashedBlock, FirstRec(HashedBlock), HashedParams)
         r2 == SeqBuildFrom(r1, OtherBlock, FirstRec(OtherBlock), OtherParams)
     IN /\ parts = [p0 EXCEPT ![GetPart(IndexId(1))] = r2.p]
        /\ buf_free = r2.free
  /\ block = [b \in LeafBlocks |->
                IF b = HashedBlock
                THEN [InitBlock EXCEPT !.index = 1, !.curr_lbf = HashedParams,
                                       !.next_lbf = HashedParams,
                                       !.n_hash_helps = 2]
                ELSE IF b = OtherBlock
                THEN [InitBlock EXCEPT !.index = 1, !.curr_lbf = OtherParams]
                ELSE InitBlock]
  /\ idx = [i \in Indexes |->
              IF i = 1 THEN [InitInfo EXCEPT !.ref_count = 2,
                                             !.lbf = HashedParams,
                                             !.n_hash_potential = 1,
                                             !.last_hash_succ = TRUE]
              ELSE InitInfo]

InitUsable ==
  (InitEmpty \/ InitUsableHashed) /\ hist = HistOff /\ ops = MaxUsableOps

StepUsable(t) ==
  \/ UbhLoad(t) \/ UbhStore(t)
  \/ DropEntry(t) \/ DropCommit(t)
  \/ PiCheck(t) \/ PiMutex(t)
  \/ BuildEntry(t) \/ BuildCheck(t) \/ BuildCommit(t)
  \/ GuessEntry(t) \/ GuessLock(t) \/ GuessSearch(t) \/ GuessValidate(t)

\* both threads search by the tree; thread 1 also tries the hash index, and
\* the last thread also builds a page on its caller's word
NextUsable ==
  \/ OpGuessAsLeft(1)
  \/ OpBuild(NThreads)
  \/ \E t \in Threads : OpSearchInfoUpdate(t) \/ StepUsable(t) \/ Finish(t)

SpecUsable == InitUsable /\ [][NextUsable]_vars

\* thread t ends btr_search_update_block_hash_info() with this step
UbhStoreStep(t) == th[t].pc = "ubh_store" /\ th'[t] # th[t]

\* the step took the reset branch for the block of t
UbhReset(t) ==
  /\ ~idx'[th[t].index].last_hash_succ
  /\ block'[th[t].b].n_hash_helps = 1

\* thread t commits a batch of a build with this step
BuildStamps(t) ==
  /\ th[t].pc = "b_commit" /\ th'[t] # th[t]
  /\ block'[th[t].b].index # Null
  /\ parts' # parts \/ block' # block

\* thread t leaves btr_search_guess_on_hash() by fail with this step
GuessFails(t) ==
  /\ th[t].op = "guess" /\ th[t].pc \in {"g_search", "g_validate"}
  /\ th'[t].pc = "done" /\ th'[t].flag = "HASH_FAIL"

\* thread t is turned away at the entry of btr_search_guess_on_hash()
\* without a latch taken
GuessTurnedAway(t) ==
  /\ th'[t].pc = "done" /\ ~th'[t].ret
  /\ latch' = latch /\ block' = block /\ idx' = idx

\* what does not depend on the order of the threads: a committed batch
\* leaves n_hash_helps at 0, fail leaves last_hash_succ false, and a
\* lookup that finds last_hash_succ false takes no latch
UsableLocal(t) ==
  /\ BuildStamps(t) => block'[th[t].b].n_hash_helps = 0
  /\ GuessFails(t) => ~idx'[th[t].index].last_hash_succ
  /\ th[t].pc = "g_entry" /\ th'[t] # th[t] /\ ~idx[th[t].index].last_hash_succ
       => GuessTurnedAway(t)

\* C40 as stated: a committed build sets n_hash_helps to 0, and an
\* update_block_hash_info that ends on a block whose n_hash_helps is 0
\* takes the reset branch; last_hash_succ becomes true only in an
\* update_block_hash_info that found n_hash_helps non-zero, the block's
\* next_left_bytes_fields equal to the info.left_bytes_fields it read and
\* the block hashed under it; fail sets last_hash_succ false and a lookup
\* that finds it false is turned away without a latch.
C40_UsableAfterSecondSearch ==
  [][\A t \in Threads : th[t].index # Null =>
       /\ UsableLocal(t)
       /\ UbhStoreStep(t) /\ block[th[t].b].n_hash_helps = 0 => UbhReset(t)
       /\ ~idx[th[t].index].last_hash_succ /\ idx'[th[t].index].last_hash_succ
            => \E u \in Threads :
                 /\ th[u].index = th[t].index
                 /\ UbhStoreStep(u)
                 /\ th[u].n_hash_helps # 0
                 /\ block[th[u].b].next_lbf = th[u].lbf
                 /\ block[th[u].b].index # Null
                 /\ block[th[u].b].curr_lbf = th[u].lbf]_vars

\* thread t ends a successful btr_search_guess_on_hash() with this step
GuessSucceeds(t) ==
  th[t].pc = "g_validate" /\ th'[t].pc = "done" /\ th'[t].ret

\* C40, amended: a committed build sets n_hash_helps to 0, and an
\* update_block_hash_info that loads n_hash_helps as 0 takes the reset
\* branch (last_hash_succ = false, n_hash_helps = 1, next_left_bytes_fields
\* = the recommendation it loaded); last_hash_succ becomes true only in an
\* update_block_hash_info that had loaded a non-zero n_hash_helps and a
\* recommendation equal to the block's next_left_bytes_fields and finds the
\* block hashed under that recommendation, or in a guess_on_hash that had
\* passed the entry test before and succeeds; fail sets last_hash_succ
\* false, and a lookup that finds it false is turned away without a latch.
C40_UsableAfterCountedSearch ==
  [][\A t \in Threads : th[t].index # Null =>
       /\ UsableLocal(t)
       /\ UbhStoreStep(t) /\ th[t].n_hash_helps = 0
            => UbhReset(t) /\ block'[th[t].b].next_lbf = th[t].lbf
       /\ ~idx[th[t].index].last_hash_succ /\ idx'[th[t].index].last_hash_succ
            => \E u \in Threads :
                 /\ th[u].index = th[t].index
                 /\ \/ GuessSucceeds(u)
                    \/ /\ UbhStoreStep(u)
                       /\ th[u].n_hash_helps # 0
                       /\ th[u].n_hash_potential # 0
                       /\ block[th[u].b].next_lbf = th[u].lbf
                       /\ block[th[u].b].index # Null
                       /\ block[th[u].b].curr_lbf = th[u].lbf]_vars

\* page HashedBlock has been built under OtherParams in this behaviour,
\* which left its n_hash_helps at 0, and the second search counted on it
\* since, which had loaded n_hash_helps as 1, has just set last_hash_succ
C40_Witness ==
  /\ block[HashedBlock].index = 1
  /\ block[HashedBlock].curr_lbf = OtherParams
  /\ block[HashedBlock].n_hash_helps = 2
  /\ idx[1].last_hash_succ
  /\ \E t \in Threads :
       /\ th[t].op = "search_info_update" /\ th[t].pc = "done"
       /\ th[t].b = HashedBlock /\ th[t].n_hash_helps = 1

\* a lookup is at the partition latch although last_hash_succ is false: it
\* passed the entry test before another lookup failed
LookupAfterFailure ==
  \E t \in Threads, u \in Threads :
    /\ u # t
    /\ th[t].op = "guess" /\ th[t].pc = "g_lock"
    /\ th[u].op = "guess" /\ th[u].pc = "done" /\ th[u].flag = "HASH_FAIL"
    /\ ~idx[th[t].index].last_hash_succ


====
